---------------------------- MODULE Spec2Model ----------------------------
(***************************************************************************)
(* A model of the voxel-copter core: the toroidal distance functions and   *)
(* the nearest-target scan of src/src/lib/game-utils.ts, the mission and   *)
(* objective state machine, mission-data validation, the save-mission      *)
(* route, the mission agent and the stats event route.                     *)
(*                                                                         *)
(* Distances: the code returns Math.sqrt(r) of a radicand r.  Coordinates  *)
(* here are integers, r is a natural number, and Math.sqrt is strictly     *)
(* increasing on the naturals in range, so every comparison or equality    *)
(* between two distances is the same comparison between their radicands.   *)
(* The model carries the radicand (names ending in Sq) and compares those. *)
(***************************************************************************)
EXTENDS Integers, Sequences, FiniteSets, TLC

VARIABLES
    dIn,        \* distance calls: the arguments (x1, y1, z1, x2, y2, z2, mapSize)
    dWrapped,   \* distance calls: radicand returned by distance3DWrapped, or NotCalled
    dPlain,     \* distance calls: radicand returned by distance3D, or NotCalled
    nIn,        \* nearest-target call: the arguments of findNearestTarget
    nOut,       \* nearest-target call: index of the returned target, NullTarget, or NotCalled
    mission,    \* mission state: briefing, playing, victory, defeat, or idle (no mission)
    objs,       \* the mission's objectives, in order
    objState,   \* state of each objective: pending, in_progress, satisfied, failed
    kills,      \* per-type counter of reported kills
    alive,      \* hostile entities alive, per type
    elapsed,    \* elapsed mission time
    playerX,    \* the player's x coordinate (y and z stay 0)
    playerAlive,    \* FALSE once the player is destroyed
    protectedAlive, \* FALSE once the protected entity is dead
    afterEnd,   \* TRUE once an event reached the mission after it was over
    vIn,        \* validation call: the value passed to validateMission
    vOut,        \* validation call: what the call did (not called, returned, threw)
    files,   \* mission files stored in the missions directory, by file id
    saveResp,   \* HTTP status of the last save-mission response (NoResponse before any)
    saveReq,    \* the last save-mission request: server mode and body (NoRequest before any)
    savePath,   \* the path the last save-mission request wrote (NoPath when it wrote none)
    gReq,   \* generation request: the difficulty asked for (Undef when none)
    gResp,   \* what the external generator does for this request
    gPhase,   \* the agent run: idle, calling (awaiting the generator), done
    gRuns,   \* what the runs made so far returned, in order
    kvTotals,   \* key-value store: the entry stats:totals
    kvLeaderboard,   \* key-value store: the entry stats:leaderboard
    hPc,   \* per handler of POST /event: the await it is at, or idle
    hBody,   \* per handler: the request body it is handling
    hTotals,   \* per handler: its local totals
    hBoard,   \* per handler: its local leaderboard
    received,   \* number of event requests received so far (handlers running together)
    acked,   \* sum of the counts of the events acknowledged with success, per total
    submitted,   \* number of handled high_score events with a positive score, per score
    uCall,   \* utility call: the function called and its arguments
    uOut,   \* utility call: the value returned, or NoCall
    cIn,   \* distance comparison: origin, altitude, two candidates and mapSize
    cNear,   \* distance comparison: findNearestTarget's distances to the candidates and its choice, or NoCall
    cNearBack,   \* distance comparison: the same distances with origin and candidate exchanged, or NoCall
    cWrapped   \* distance comparison: distance3DWrapped to and from the candidates, or NoCall

distVars == <<dIn, dWrapped, dPlain>>
nearVars == <<nIn, nOut>>
worldVars == <<kills, alive, elapsed, playerX, playerAlive, protectedAlive>>
missionVars == <<mission, objs, objState, worldVars, afterEnd>>

valVars == <<vIn, vOut>>

saveVars == <<files, saveResp, saveReq, savePath>>

genVars == <<gReq, gResp, gPhase, gRuns>>

statsVars == <<kvTotals, kvLeaderboard, hPc, hBody, hTotals, hBoard, received, acked, submitted>>

utilVars == <<uCall, uOut>>

pairVars == <<cIn, cNear, cNearBack, cWrapped>>

vars == <<distVars, nearVars, missionVars, valVars, saveVars, genVars, statsVars, utilVars, pairVars>>

\* What the actions of one part leave alone: the variables of the other parts.
notDistVars == <<nearVars, missionVars, valVars, saveVars, genVars, statsVars, utilVars, pairVars>>
notNearVars == <<distVars, missionVars, valVars, saveVars, genVars, statsVars, utilVars, pairVars>>
notMissionVars == <<distVars, nearVars, valVars, saveVars, genVars, statsVars, utilVars, pairVars>>
notValVars == <<distVars, nearVars, missionVars, saveVars, genVars, statsVars, utilVars, pairVars>>
notSaveVars == <<distVars, nearVars, missionVars, valVars, genVars, statsVars, utilVars, pairVars>>
notGenVars == <<distVars, nearVars, missionVars, valVars, saveVars, statsVars, utilVars, pairVars>>
notStatsVars == <<distVars, nearVars, missionVars, valVars, saveVars, genVars, utilVars, pairVars>>
notUtilVars == <<distVars, nearVars, missionVars, valVars, saveVars, genVars, statsVars, pairVars>>
notPairVars == <<distVars, nearVars, missionVars, valVars, saveVars, genVars, statsVars, utilVars>>

-----------------------------------------------------------------------------
(* Bounds of the model *)

\* Coordinates of the distance calls range over -MaxCoord..MaxCoord.
MaxCoord == 3
\* Altitudes of the distance calls range over 0..MaxZ.
MaxZ == 1
\* Map sizes of the distance calls range over 0..MaxMapSize.
MaxMapSize == 4

Coords == (0 - MaxCoord)..MaxCoord
Alts == 0..MaxZ
MapSizes == 0..MaxMapSize

\* A result slot before its function has been called (no radicand is negative).
NotCalled == 0 - 1

Abs(n) == IF n < 0 THEN 0 - n ELSE n

\* The least element of a non-empty set of integers.
SetMin(S) == CHOOSE m \in S : \A n \in S : m <= n

-----------------------------------------------------------------------------
(* distance3D and distance3DWrapped (radicands) *)

\* game-utils.ts:135-140.
distance3D(x1, y1, z1, x2, y2, z2) ==
    LET dx == x2 - x1
        dy == y2 - y1
        dz == z2 - z1
    IN  dx * dx + dy * dy + dz * dz

\* One axis of game-utils.ts:156-160: "if (d > half) d -= mapSize;
\* if (d < -half) d += mapSize", the second test reading the value the
\* first left.  half = mapSize / 2, so d > half is 2 * d > mapSize.
WrapDeltaSignSlip(d, mapSize) ==
    LET d1 == IF 2 * d > mapSize THEN d + mapSize ELSE d
    IN  IF 2 * d1 < 0 - mapSize THEN d1 + mapSize ELSE d1

WrapDelta(d, mapSize) ==
    LET d1 == IF 2 * d > mapSize THEN d - mapSize ELSE d
    IN  IF 2 * d1 < 0 - mapSize THEN d1 + mapSize ELSE d1

\* game-utils.ts:145-163.
distance3DWrapped(x1, y1, z1, x2, y2, z2, mapSize) ==
    LET dx == WrapDelta(x1 - x2, mapSize)
        dy == WrapDelta(y1 - y2, mapSize)
        dz == z1 - z2
    IN  dx * dx + dy * dy + dz * dz

-----------------------------------------------------------------------------
(* The distance calls: arguments drawn at Init, the two functions applied *)

DistInputs ==
    [x1 : Coords, y1 : Coords, z1 : Alts,
     x2 : Coords, y2 : Coords, z2 : Alts, mapSize : MapSizes]

DistInit ==
    /\ dIn \in DistInputs
    /\ dWrapped = NotCalled
    /\ dPlain = NotCalled

\* No distance call is under way (the other specifications).
DistIdle ==
    /\ dIn = <<>>
    /\ dWrapped = NotCalled
    /\ dPlain = NotCalled

CallDistance3DWrapped ==
    /\ dWrapped = NotCalled
    /\ dWrapped' = distance3DWrapped(dIn.x1, dIn.y1, dIn.z1,
                                     dIn.x2, dIn.y2, dIn.z2, dIn.mapSize)
    /\ UNCHANGED <<dIn, dPlain, notDistVars>>

CallDistance3D ==
    /\ dPlain = NotCalled
    /\ dPlain' = distance3D(dIn.x1, dIn.y1, dIn.z1, dIn.x2, dIn.y2, dIn.z2)
    /\ UNCHANGED <<dIn, dWrapped, notDistVars>>

DistNext == CallDistance3DWrapped \/ CallDistance3D

-----------------------------------------------------------------------------
(* findNearestTarget *)

\* Candidate lists hold at most MaxTargets targets.
MaxTargets == 3
\* Targets and origins lie on the grid 0..MaxNear; the wrapping map is the
\* grid itself, MaxNear + 1 wide.
MaxNear == 3
\* The finite maxDist tried (the other one is Infinity).
MaxDist == 2

\* maxDist = Infinity (game-utils.ts:186); no radicand is negative.
Infinity == 0 - 1
\* The result null (game-utils.ts:190); targets are returned by their
\* position 1..Len(targets) in the list.
NullTarget == 0

\* game-utils.ts:195: "if (filterFn && !filterFn(target)) continue".
\* target.pass is what filterFn returns for the target.
SkippedNever(hasFilter, target) == FALSE

Skipped(hasFilter, target) == hasFilter /\ ~target.pass

\* One axis of game-utils.ts:199-204: no wrapping unless mapSize > 0.
NearestWrapDeltaOneSided(d, mapSize) ==
    IF mapSize > 0
    THEN IF 2 * d > mapSize THEN d - mapSize ELSE d
    ELSE d

NearestWrapDelta(d, mapSize) ==
    IF mapSize > 0
    THEN LET d1 == IF 2 * d > mapSize THEN d - mapSize ELSE d
         IN  IF 2 * d1 < 0 - mapSize THEN d1 + mapSize ELSE d1
    ELSE d

\* The wrapping applied to the x axis only.
TargetDistSqWrapsXOnly(target, x, y, mapSize) ==
    LET dx == NearestWrapDelta(target.x - x, mapSize)
        dy == target.y - y
    IN  dx * dx + dy * dy

\* game-utils.ts:197-205: the radicand of dist.
TargetDistSq(target, x, y, mapSize) ==
    LET dx == NearestWrapDelta(target.x - x, mapSize)
        dy == NearestWrapDelta(target.y - y, mapSize)
    IN  dx * dx + dy * dy

\* game-utils.ts:206: "dist < nearestDist", on radicands; nearestDist starts
\* as maxDist, which may be Infinity.
IsNearerOrEqual(distSq, nearestDistSq) ==
    nearestDistSq = Infinity \/ distSq <= nearestDistSq

IsNearer(distSq, nearestDistSq) ==
    nearestDistSq = Infinity \/ distSq < nearestDistSq

\* game-utils.ts:194-210: the loop from the i-th target on, carrying
\* nearest and nearestDist.
RECURSIVE ScanTargets(_, _, _, _, _, _, _, _)
ScanTargets(targets, i, x, y, hasFilter, mapSize, nearest, nearestDistSq) ==
    IF i > Len(targets) THEN nearest
    ELSE IF Skipped(hasFilter, targets[i])
         THEN ScanTargets(targets, i + 1, x, y, hasFilter, mapSize,
                          nearest, nearestDistSq)
         ELSE LET distSq == TargetDistSq(targets[i], x, y, mapSize)
              IN  IF IsNearer(distSq, nearestDistSq)
                  THEN ScanTargets(targets, i + 1, x, y, hasFilter, mapSize,
                                   i, distSq)
                  ELSE ScanTargets(targets, i + 1, x, y, hasFilter, mapSize,
                                   nearest, nearestDistSq)

\* game-utils.ts:182-213.  maxDist is Infinity or a distance >= 0, whose
\* radicand is its square.
findNearestTarget(targets, x, y, maxDist, hasFilter, mapSize) ==
    ScanTargets(targets, 1, x, y, hasFilter, mapSize, NullTarget,
                IF maxDist = Infinity THEN Infinity ELSE maxDist * maxDist)

NearGrid == 0..MaxNear
\* Targets sit on the first and the last row of the grid.
NearRows == {0, MaxNear}
NearTargets == [x : NearGrid, y : NearRows, pass : BOOLEAN]

SeqsUpTo(S, n) == UNION { [1..k -> S] : k \in 0..n }

\* The call of tests/build.test.ts:163-167: on a 100-wide map the target at
\* x = 5 is nearer to the origin x = 95 than the one at x = 60.
WrapExample ==
    [targets |-> << [x |-> 5, y |-> 50, pass |-> TRUE],
                    [x |-> 60, y |-> 50, pass |-> TRUE] >>,
     x |-> 95, y |-> 50, maxDist |-> Infinity, hasFilter |-> FALSE,
     mapSize |-> 100]

\* Without a filter the pass flags are never read: they are all TRUE then.
NearInputs ==
    { in \in [targets : SeqsUpTo(NearTargets, MaxTargets),
              x : {0, MaxNear}, y : {0},
              maxDist : {Infinity, MaxDist},
              hasFilter : BOOLEAN,
              mapSize : {0, MaxNear + 1}] :
        in.hasFilter \/ \A i \in 1..Len(in.targets) : in.targets[i].pass }
    \cup {WrapExample}

NearInit ==
    /\ nIn \in NearInputs
    /\ nOut = NotCalled

\* No nearest-target call is under way (the other specifications).
NearIdle ==
    /\ nIn = <<>>
    /\ nOut = NotCalled

CallFindNearestTarget ==
    /\ nOut = NotCalled
    /\ nOut' = findNearestTarget(nIn.targets, nIn.x, nIn.y, nIn.maxDist,
                                 nIn.hasFilter, nIn.mapSize)
    /\ UNCHANGED <<nIn, notNearVars>>

NearNext == CallFindNearestTarget

-----------------------------------------------------------------------------
(* The mission and objective state machine (spec sections 4.3, 4.4, 5) *)

\* A mission holds at most MaxObjectives objectives.
MaxObjectives == 2
\* Hostile entities spawned per target type; also the largest required count.
MaxCount == 2
\* The mission's timeLimit; survive_time durations range to one beyond it.
TimeLimit == 2
\* The player moves over x in 0..MaxPos, on a map MaxPos + 1 wide.
MaxPos == 3

\* Where the player starts, and where the reach_location point lies.
StartX == 2
LocationX == 0
\* reach_location triggers when the wrapped distance falls below this radius.
TriggerRadius == 2

TargetTypes == {"TANK", "SOLDIER"}
ObjectiveKinds ==
    {"destroy_all", "destroy_type", "destroy_count", "reach_location",
     "survive_time", "protect_target"}

Objective(kind, targetType, count, duration) ==
    [type |-> kind, targetType |-> targetType, count |-> count,
     duration |-> duration]

\* The objectives a mission may carry, with their type-specific parameters.
ObjectivePool ==
    {Objective("destroy_all", "", 0, 0),
     Objective("reach_location", "", 0, 0),
     Objective("protect_target", "", 0, 0)}
    \cup {Objective("destroy_type", t, 1, 0) : t \in TargetTypes}
    \cup {Objective("destroy_count", t, n, 0) : t \in TargetTypes, n \in 1..MaxCount}
    \cup {Objective("survive_time", "", 0, d) : d \in 1..(TimeLimit + 1)}

\* An order on the pool: a mission lists its objectives by increasing rank,
\* so no objective occurs twice.
KindRank(kind) ==
    CASE kind = "destroy_all" -> 1
      [] kind = "destroy_type" -> 2
      [] kind = "destroy_count" -> 3
      [] kind = "reach_location" -> 4
      [] kind = "survive_time" -> 5
      [] kind = "protect_target" -> 6

ObjectiveRank(o) ==
    100 * KindRank(o.type) + 10 * (IF o.targetType = "SOLDIER" THEN 1 ELSE 0)
        + o.count + o.duration

\* protect_target is satisfied when the remaining objectives are, so a
\* mission that carries it carries another objective too.
Missions ==
    { m \in UNION { [1..k -> ObjectivePool] : k \in 1..MaxObjectives } :
        /\ \A i \in 1..(Len(m) - 1) : ObjectiveRank(m[i]) < ObjectiveRank(m[i + 1])
        /\ \E i \in 1..Len(m) : m[i].type # "protect_target" }

Terminal(st) == st \in {"satisfied", "failed"}

\* Whether an in-progress objective other than protect_target is satisfied
\* in the world (k kills, al alive, el elapsed, px player position).
ObjectiveMetLoose(o, k, al, el, px) ==
    CASE o.type = "destroy_all" -> \A t \in TargetTypes : al[t] = 0
      [] o.type \in {"destroy_type", "destroy_count"} ->
            \E t \in TargetTypes : k[t] >= o.count
      [] o.type = "reach_location" ->
            distance3DWrapped(px, 0, 0, LocationX, 0, 0, MaxPos + 1)
                < TriggerRadius * TriggerRadius
      [] o.type = "survive_time" -> el >= o.duration
      [] OTHER -> FALSE

ObjectiveMet(o, k, al, el, px) ==
    CASE o.type = "destroy_all" -> \A t \in TargetTypes : al[t] = 0
      [] o.type \in {"destroy_type", "destroy_count"} ->
            k[o.targetType] >= o.count
      [] o.type = "reach_location" ->
            distance3DWrapped(px, 0, 0, LocationX, 0, 0, MaxPos + 1)
                < TriggerRadius * TriggerRadius
      [] o.type = "survive_time" -> el >= o.duration
      [] OTHER -> FALSE

\* First pass over one objective: a terminal objective keeps its state;
\* protect_target fails when the protected entity is dead.
EvalOneStateless(o, st, k, al, el, px, prot) ==
    IF st = "pending" THEN st
    ELSE IF o.type = "protect_target"
         THEN IF ~prot THEN "failed" ELSE "in_progress"
         ELSE IF ObjectiveMet(o, k, al, el, px)
              THEN "satisfied" ELSE "in_progress"

EvalOne(o, st, k, al, el, px, prot) ==
    IF st # "in_progress" THEN st
    ELSE IF o.type = "protect_target"
         THEN IF ~prot THEN "failed" ELSE st
         ELSE IF ObjectiveMet(o, k, al, el, px) THEN "satisfied" ELSE st

\* Objective evaluation of one tick: every objective once, then
\* protect_target, satisfied when the remaining objectives are.
EvalObjectives(os, sts, k, al, el, px, prot) ==
    LET p1 == [i \in 1..Len(os) |->
                  EvalOne(os[i], sts[i], k, al, el, px, prot)]
    IN  [i \in 1..Len(os) |->
            IF /\ os[i].type = "protect_target"
               /\ p1[i] = "in_progress"
               /\ \A j \in (1..Len(os)) \ {i} : p1[j] = "satisfied"
            THEN "satisfied"
            ELSE p1[i]]

\* The mission-level transition of a playing mission after evaluation.
MissionOutcomeDefeatFirst(sts, el, pl) ==
    IF \/ \E i \in 1..Len(sts) : sts[i] = "failed"
       \/ ~pl
       \/ el >= TimeLimit
    THEN "defeat"
    ELSE IF \A i \in 1..Len(sts) : sts[i] = "satisfied" THEN "victory"
    ELSE "playing"

MissionOutcomeNoPlayerCheck(sts, el, pl) ==
    IF \A i \in 1..Len(sts) : sts[i] = "satisfied" THEN "victory"
    ELSE IF \/ \E i \in 1..Len(sts) : sts[i] = "failed"
            \/ el >= TimeLimit
         THEN "defeat"
         ELSE "playing"

MissionOutcome(sts, el, pl) ==
    IF \A i \in 1..Len(sts) : sts[i] = "satisfied" THEN "victory"
    ELSE IF \/ \E i \in 1..Len(sts) : sts[i] = "failed"
            \/ ~pl
            \/ el >= TimeLimit
         THEN "defeat"
         ELSE "playing"

MissionInit ==
    /\ mission = "briefing"
    /\ objs \in Missions
    /\ objState = [i \in 1..Len(objs) |-> "pending"]
    /\ kills = [t \in TargetTypes |-> 0]
    /\ alive = [t \in TargetTypes |-> MaxCount]
    /\ elapsed = 0
    /\ playerX = StartX
    /\ playerAlive = TRUE
    /\ protectedAlive = TRUE
    /\ afterEnd = FALSE

\* No mission is loaded (the other specifications).
MissionIdle ==
    /\ mission = "idle"
    /\ objs = <<>>
    /\ objState = <<>>
    /\ kills = <<>>
    /\ alive = <<>>
    /\ elapsed = 0
    /\ playerX = 0
    /\ playerAlive = TRUE
    /\ protectedAlive = TRUE
    /\ afterEnd = FALSE

\* One tick of a playing mission: the world as the event leaves it, then
\* objective evaluation, then the mission transition.  An event that reaches
\* a mission that is over changes nothing of it.  No event precedes the start.
Deliver(k, al, el, px, pl, prot) ==
    /\ mission # "briefing"
    /\ IF mission = "playing"
       THEN /\ kills' = k
            /\ alive' = al
            /\ elapsed' = el
            /\ playerX' = px
            /\ playerAlive' = pl
            /\ protectedAlive' = prot
            /\ objState' = EvalObjectives(objs, objState, k, al, el, px, prot)
            /\ mission' = MissionOutcome(objState', el, pl)
            /\ UNCHANGED afterEnd
       ELSE /\ afterEnd' = TRUE
            /\ UNCHANGED <<worldVars, objState, mission>>
    /\ UNCHANGED <<objs, notMissionVars>>

\* briefing -> playing; the objectives open.
StartMission ==
    /\ mission = "briefing"
    /\ mission' = "playing"
    /\ objState' = [i \in 1..Len(objs) |-> "in_progress"]
    /\ UNCHANGED <<objs, worldVars, afterEnd, notMissionVars>>

\* The per-type counter after a kill event of type t.
CountKill(k, t) == [k EXCEPT ![t] = @ + 1]

\* The combat resolver reports the death of a hostile entity of type t.
KillEvent ==
    \E t \in TargetTypes :
        /\ mission = "playing" => alive[t] > 0
        /\ Deliver(CountKill(kills, t), [alive EXCEPT ![t] = @ - 1],
                   elapsed, playerX, playerAlive, protectedAlive)

\* One unit of mission time passes.
TimerEvent ==
    /\ elapsed <= TimeLimit
    /\ Deliver(kills, alive, elapsed + 1, playerX, playerAlive, protectedAlive)

\* The player moves one cell.
PositionEvent ==
    \E px \in {playerX - 1, playerX + 1} :
        /\ px \in 0..MaxPos
        /\ Deliver(kills, alive, elapsed, px, playerAlive, protectedAlive)

PlayerDestroyedEvent ==
    /\ mission = "playing" => playerAlive
    /\ Deliver(kills, alive, elapsed, playerX, FALSE, protectedAlive)

ProtectedDestroyedEvent ==
    /\ mission = "playing" => protectedAlive
    /\ Deliver(kills, alive, elapsed, playerX, playerAlive, FALSE)

MissionNext ==
    \/ StartMission
    \/ KillEvent
    \/ TimerEvent
    \/ PositionEvent
    \/ PlayerDestroyedEvent
    \/ ProtectedDestroyedEvent

-----------------------------------------------------------------------------
(* validateMission (game-utils.ts:321-375) on JavaScript values *)

\* A spawnZones array holds at most MaxZones entries.
MaxZones == 2

\* JavaScript values, as far as validateMission tells them apart.
Undef == [t |-> "undefined"]
Null == [t |-> "null"]
Num(n) == [t |-> "number", n |-> n]
Str(s) == [t |-> "string", s |-> s]
\* An object: f maps its own property names to their values.
Obj(f) == [t |-> "object", f |-> f]
\* An array: a is the sequence of its elements.
Arr(a) == [t |-> "array", a |-> a]

\* typeof v
TypeOf(v) ==
    CASE v.t = "undefined" -> "undefined"
      [] v.t = "number" -> "number"
      [] v.t = "string" -> "string"
      [] OTHER -> "object"       \* null, objects and arrays

\* Whether v is truthy: !v is FALSE.
Truthy(v) ==
    CASE v.t \in {"undefined", "null"} -> FALSE
      [] v.t = "number" -> v.n # 0
      [] v.t = "string" -> v.s # ""
      [] OTHER -> TRUE

IsArray(v) == v.t = "array"

\* Reading a property of undefined or null throws a TypeError.
ReadThrows(v) == v.t \in {"undefined", "null"}

\* v.k where the read does not throw: an own property of an object, and
\* undefined for a missing property or a primitive or array (none of the
\* names read here is a property of those).
Get(v, k) ==
    IF v.t = "object" /\ k \in DOMAIN v.f THEN v.f[k] ELSE Undef

\* A trim that leaves whitespace in place.
TrimNone(str) == str

\* String.prototype.trim on the strings of the model: those made of
\* whitespace only become empty, the others have no outer whitespace.
Trim(str) == IF str \in {" ", "  "} THEN "" ELSE str

\* A message: the field it names, the array index it names (NoIndex when
\* none) and its text.
NoIndex == 0 - 1
Msg(field, index, text) == [field |-> field, index |-> index, text |-> text]

Returned(errors, warnings) ==
    [status |-> "returned", valid |-> (Len(errors) = 0), errors |-> errors,
     warnings |-> warnings]
Threw == [status |-> "threw"]
NoCall == [status |-> "not called"]

\* game-utils.ts:361-366: one pass of the forEach callback over zone, the
\* i-th entry (from 0); acc holds errors and warnings so far.
\* The callback with the count finding pushed to errors.
ZoneStepCountIsError(zone, i, acc) ==
    IF ReadThrows(zone) THEN Threw
    ELSE LET e == IF \/ TypeOf(Get(zone, "x")) # "number"
                     \/ TypeOf(Get(zone, "y")) # "number"
                  THEN << Msg("spawnZones", i, "must have numeric x and y") >>
                  ELSE << >>
             c == Get(zone, "count")
             w == IF /\ c # Undef
                     /\ (TypeOf(c) # "number" \/ c.n < 0)
                  THEN << Msg("spawnZones.count", i,
                              "should be a non-negative number") >>
                  ELSE << >>
         IN  [acc EXCEPT !.errors = @ \o e \o w]

ZoneStep(zone, i, acc) ==
    IF ReadThrows(zone) THEN Threw
    ELSE LET e == IF \/ TypeOf(Get(zone, "x")) # "number"
                     \/ TypeOf(Get(zone, "y")) # "number"
                  THEN << Msg("spawnZones", i, "must have numeric x and y") >>
                  ELSE << >>
             c == Get(zone, "count")
             w == IF /\ c # Undef
                     /\ (TypeOf(c) # "number" \/ c.n < 0)
                  THEN << Msg("spawnZones.count", i,
                              "should be a non-negative number") >>
                  ELSE << >>
         IN  [acc EXCEPT !.errors = @ \o e, !.warnings = @ \o w]

\* game-utils.ts:360-367: the forEach from the entry at position pos on;
\* an exception in the callback ends the call.
RECURSIVE ForEachZone(_, _, _)
ForEachZone(zones, pos, acc) ==
    IF pos > Len(zones) THEN acc
    ELSE LET next == ZoneStep(zones[pos], pos - 1, acc)
         IN  IF next = Threw THEN Threw
             ELSE ForEachZone(zones, pos + 1, next)

KnownDifficulties ==
    {Str("easy"), Str("medium"), Str("normal"), Str("hard"), Str("extreme")}
KnownWeathers ==
    {Str("clear"), Str("cloudy"), Str("rain"), Str("storm"), Str("fog"),
     Str("night")}

\* game-utils.ts:321-375.
validateMission(m) ==
    IF ~Truthy(m) \/ TypeOf(m) # "object"
    THEN [status |-> "returned", valid |-> FALSE,
          errors |-> << Msg("mission", NoIndex, "Mission must be an object") >>,
          warnings |-> << >>]
    ELSE
    LET id == Get(m, "missionId")
        name == Get(m, "name")
        mapIndex == Get(m, "mapIndex")
        start == Get(m, "playerStart")
        difficulty == Get(m, "difficulty")
        weather == Get(m, "weather")
        zones == Get(m, "spawnZones")
        e1 == IF TypeOf(id) # "number"
              THEN << Msg("missionId", NoIndex, "must be a number") >>
              ELSE << >>
        e2 == IF TypeOf(name) # "string" \/ Trim(name.s) = ""
              THEN << Msg("name", NoIndex, "must be a non-empty string") >>
              ELSE << >>
        e3 == IF TypeOf(mapIndex) # "number" \/ mapIndex.n < 1
              THEN << Msg("mapIndex", NoIndex, "must be a positive number") >>
              ELSE << >>
        e4 == IF \/ ~Truthy(start)
                 \/ TypeOf(Get(start, "x")) # "number"
                 \/ TypeOf(Get(start, "y")) # "number"
              THEN << Msg("playerStart", NoIndex,
                          "must have numeric x and y coordinates") >>
              ELSE << >>
        w1 == IF Truthy(difficulty) /\ difficulty \notin KnownDifficulties
              THEN << Msg("difficulty", NoIndex,
                          "Unknown difficulty, will default to medium") >>
              ELSE << >>
        w2 == IF Truthy(weather) /\ weather \notin KnownWeathers
              THEN << Msg("weather", NoIndex, "Unknown weather") >>
              ELSE << >>
        acc == [errors |-> e1 \o e2 \o e3 \o e4, warnings |-> w1 \o w2]
        end == IF Truthy(zones) /\ IsArray(zones)
               THEN ForEachZone(zones.a, 1, acc)
               ELSE acc
    IN  IF end = Threw THEN Threw ELSE Returned(end.errors, end.warnings)

\* CONFIG.MAP_SIZE: the edge length of the map.
MAP_SIZE == 1024

\* The values each field of a mission object takes; Undef is a missing field.
IdValues == {Undef, Num(1), Str("1")}
NameValues == {Undef, Str(""), Str("  "), Str("Test Mission")}
MapIndexValues == {Undef, Num(0), Num(1), Str("1")}
DifficultyValues == {Undef, Str(""), Str("easy"), Str("impossible")}
WeatherValues == {Undef, Str("clear"), Str("tornado")}
StartValues ==
    {Undef, Null, Num(5),
     Obj([x |-> Num(512), y |-> Num(512)]),
     Obj([x |-> Str("invalid"), y |-> Num(512)]),
     Obj([x |-> Num(0 - 5), y |-> Num(512)])}
ZoneValues ==
    {Null, Num(5),
     Obj([x |-> Num(400), y |-> Num(300)]),
     Obj([x |-> Str("bad"), y |-> Num(300)]),
     Obj([x |-> Num(400), y |-> Num(300), count |-> Num(0 - 1)]),
     Obj([x |-> Num(400), y |-> Num(300), count |-> Str("5")])}
ZoneArrays == {Arr(a) : a \in SeqsUpTo(ZoneValues, MaxZones)}
ZonesValues == {Undef, Str("zones"), Arr(<< >>)} \cup ZoneArrays

\* Missions with every combination of the scalar fields and playerStart,
\* with no spawn zone to look at.
FieldMissions ==
    { Obj(f) : f \in [missionId : IdValues, name : NameValues,
                      mapIndex : MapIndexValues, difficulty : DifficultyValues,
                      weather : WeatherValues, playerStart : StartValues,
                      spawnZones : {Undef, Str("zones"), Arr(<< >>)}] }

\* Missions with every spawnZones array, otherwise well formed up to a
\* missing missionId and any difficulty and weather.
ZoneMissions ==
    { Obj(f) : f \in [missionId : {Undef, Num(1)}, name : {Str("Test Mission")},
                      mapIndex : {Num(1)}, difficulty : DifficultyValues,
                      weather : WeatherValues,
                      playerStart : {Obj([x |-> Num(512), y |-> Num(512)])},
                      spawnZones : ZoneArrays] }

MissionObjects == FieldMissions \cup ZoneMissions

\* Every kind of argument: non-objects, an array, an empty object, objects
\* with missing or wrongly typed fields.
MissionInputs ==
    {Undef, Null, Num(0), Num(5), Str("string"), Arr(<< >>), Obj(<< >>)}
    \cup MissionObjects

ValInit ==
    /\ vIn \in MissionInputs
    /\ vOut = NoCall

\* No validation call is under way (the other specifications).
ValIdle ==
    /\ vIn = Undef
    /\ vOut = NoCall

CallValidateMission ==
    /\ vOut = NoCall
    /\ vOut' = validateMission(vIn)
    /\ UNCHANGED <<vIn, notValVars>>

ValNext == CallValidateMission

-----------------------------------------------------------------------------
(* POST /api/dev/save-mission (src/src/api/dev/route.ts) *)

\* The largest mission id the route accepts.
MaxFileId == 99

NaN == [t |-> "NaN"]
NoFile == [t |-> "no file"]
NoResponse == 0
NoRequest == [t |-> "no request"]
NoPath == << >>

\* route.ts:29: `src/web/public/missions/mission-${id}.json`, as the
\* literal parts and the number between them.
FilePath(id) == << "src/web/public/missions/mission-", id, ".json" >>

\* parseInt(v, 10) on the values of the model: a number passes through (all
\* are integers), a string yields its leading decimal digits, anything else
\* NaN.
ParseInt(v) ==
    CASE v.t = "number" -> v
      [] v = Str("2") -> Num(2)
      [] v = Str("1; drop") -> Num(1)
      [] OTHER -> NaN

\* JSON.stringify of a value and JSON.parse of the text: properties holding
\* undefined are dropped (in nested objects and array entries too), other
\* values come back as they were.
RECURSIVE JsonRoundTrip(_)
JsonRoundTrip(v) ==
    CASE v.t = "object" ->
            Obj([k \in {j \in DOMAIN v.f : v.f[j] # Undef} |->
                    JsonRoundTrip(v.f[k])])
      [] v.t = "array" ->
            Arr([i \in DOMAIN v.a |->
                    IF v.a[i] = Undef THEN Null ELSE JsonRoundTrip(v.a[i])])
      [] OTHER -> v

\* A well-formed mission carrying missionId id.
SampleMission(id) ==
    Obj([missionId |-> Num(id), name |-> Str("Test Mission"),
         mapIndex |-> Num(1), difficulty |-> Str("easy"),
         weather |-> Str("clear"),
         playerStart |-> Obj([x |-> Num(512), y |-> Num(512)]),
         spawnZones |-> Arr(<< Obj([x |-> Num(400), y |-> Num(300)]) >>)])

\* The missionId and mission of a request body.
BodyIds ==
    {Undef, Num(0), Num(1), Num(2), Num(MaxFileId), Num(MaxFileId + 1),
     Str("2"), Str("1; drop"), Str("abc")}
BodyMissions ==
    {Undef, Null, Num(5), Arr(<< >>),
     Obj([mapIndex |-> Num(0)]), Obj([mapIndex |-> Num(1)]),
     SampleMission(1), SampleMission(2)}

\* A request body: no JSON at all, the JSON value null, or an object with
\* the two fields.
NoJson == [t |-> "not json"]
SaveBodies ==
    {NoJson, Null} \cup [missionId : BodyIds, mission : BodyMissions]

\* The ids a file can be stored under.
FileIds == {n \in 1..MaxFileId : \E v \in BodyIds : ParseInt(v) = Num(n)}

SaveInit ==
    /\ files = [n \in FileIds |-> NoFile]
    /\ saveResp = NoResponse
    /\ saveReq = NoRequest
    /\ savePath = NoPath

\* No save request is made (the other specifications).
SaveIdle ==
    /\ files = << >>
    /\ saveResp = NoResponse
    /\ saveReq = NoRequest
    /\ savePath = NoPath

\* The range check of line 19 left out.
SaveStatusAnyId(isDev, body, writeOk) ==
    IF ~isDev THEN 403
    ELSE IF body \in {NoJson, Null} THEN 500
    ELSE LET id == ParseInt(body.missionId)
             m == body.mission
         IN  IF id = NaN THEN 400
             ELSE IF \/ ~Truthy(m) \/ TypeOf(m) # "object"
                     \/ ~Truthy(Get(m, "mapIndex"))
                  THEN 400
             ELSE IF ~writeOk THEN 500
             ELSE 200

\* route.ts:8-39: the status of the response.  isDev is the environment
\* test of line 8, writeOk whether Bun.write succeeds.  A body that is not
\* JSON makes c.req.json() throw, the JSON body null makes the destructuring
\* of line 15 throw; both end in the catch of line 36.
SaveStatus(isDev, body, writeOk) ==
    IF ~isDev THEN 403
    ELSE IF body \in {NoJson, Null} THEN 500
    ELSE LET id == ParseInt(body.missionId)
             m == body.mission
         IN  IF id = NaN \/ id.n < 1 \/ id.n > MaxFileId THEN 400
             ELSE IF \/ ~Truthy(m) \/ TypeOf(m) # "object"
                     \/ ~Truthy(Get(m, "mapIndex"))
                  THEN 400
             ELSE IF ~writeOk THEN 500
             ELSE 200

\* route.ts:6-40: one request; the file is written when all checks pass.
SaveMissionRequest ==
    \E isDev \in BOOLEAN, body \in SaveBodies, writeOk \in BOOLEAN :
        /\ saveReq' = [isDev |-> isDev, body |-> body]
        /\ saveResp' = SaveStatus(isDev, body, writeOk)
        /\ files' = IF saveResp' = 200
                    THEN [files EXCEPT ![ParseInt(body.missionId).n] =
                             JsonRoundTrip(body.mission)]
                    ELSE files
        /\ savePath' = IF saveResp' = 200
                       THEN FilePath(ParseInt(body.missionId).n)
                       ELSE NoPath
        /\ UNCHANGED notSaveVars

SaveNext == SaveMissionRequest

-----------------------------------------------------------------------------
(* The mission agent (src/src/agent/mission/agent.ts) *)

\* Longest entities array / objectives array in a generator response.
MaxEntitiesIn == 21
MaxObjectivesIn == 6
\* Math.random() * 1000000 floored: seeds are drawn from 1..MaxSeed.
MaxSeed == 2
\* Runs of the agent made for one request and response.
MaxRuns == 2

WEATHER_OPTIONS == {Str("clear"), Str("dusk"), Str("night"), Str("fog"), Str("storm")}
DIFFICULTY_OPTIONS == {Str("easy"), Str("normal"), Str("hard"), Str("extreme")}

\* Caps and clamps of the normalisation.
EntityCap == 20
ObjectiveCap == 5
MinTimeLimit == 60
MaxTimeLimit == 600
DefaultTimeLimit == 300
MaxAirportCount == 3
DefaultAirportCount == 1
MaxBaseCount == 5
DefaultBaseCount == 2

Min2(a, b) == IF a < b THEN a ELSE b
Max2(a, b) == IF a > b THEN a ELSE b

\* A clamp that forgets the lower limit.
ClampNoFloor(lo, hi, v, default) ==
    Min2(hi, IF v.t = "number" THEN v.n ELSE default)

\* Math.max(lo, Math.min(hi, typeof v === 'number' ? v : default))
Clamp(lo, hi, v, default) ==
    Max2(lo, Min2(hi, IF v.t = "number" THEN v.n ELSE default))

\* A slice that keeps the whole array.
SliceAll(raw, cap) == raw

\* raw.slice(0, cap)
Slice(raw, cap) == SubSeq(raw, 1, Min2(cap, Len(raw)))

Entity(type, count, area) == [type |-> type, count |-> count, area |-> area]

\* agent.ts:173-177: the map callback on one raw entity (not null).
NormalizeEntity(e) ==
    Entity(IF TypeOf(Get(e, "type")) = "string" THEN Get(e, "type").s ELSE "SOLDIER",
           IF TypeOf(Get(e, "count")) = "number" THEN Get(e, "count").n
           ELSE IF TypeOf(Get(e, "quantity")) = "number" THEN Get(e, "quantity").n
           ELSE 1,
           IF TypeOf(Get(e, "area")) = "string" THEN Get(e, "area").s ELSE "scattered")

\* agent.ts:183-213: the entities used when the response has none.
defaultEntities(difficulty) ==
    CASE difficulty = "easy" ->
            << Entity("TANK", 3, "scattered"), Entity("SOLDIER", 5, "scattered") >>
      [] difficulty = "hard" ->
            << Entity("TANK", 8, "scattered"), Entity("SAM_SITE", 4, "base"),
               Entity("SOLDIER", 15, "scattered"), Entity("AIR_FIGHTER", 3, "airport") >>
      [] difficulty = "extreme" ->
            << Entity("TANK", 12, "scattered"), Entity("SAM_SITE", 6, "base"),
               Entity("SOLDIER", 20, "scattered"), Entity("AIR_FIGHTER", 5, "airport"),
               Entity("AIR_ATTACK_HELI", 2, "airport") >>
      [] OTHER ->
            << Entity("TANK", 5, "scattered"), Entity("SAM_SITE", 2, "base"),
               Entity("SOLDIER", 8, "scattered"), Entity("AIR_FIGHTER", 1, "airport") >>

\* agent.ts:219-224: the map callback on one raw objective (not null).
NormalizeObjective(o) ==
    [type |-> IF TypeOf(Get(o, "type")) = "string" THEN Get(o, "type").s
              ELSE "destroy_all",
     description |-> IF TypeOf(Get(o, "description")) = "string"
                     THEN Get(o, "description").s ELSE "Complete the objective",
     targetType |-> IF TypeOf(Get(o, "targetType")) = "string"
                    THEN Get(o, "targetType") ELSE Undef,
     count |-> IF TypeOf(Get(o, "count")) = "number" THEN Get(o, "count") ELSE Undef]

defaultObjectives ==
    << [type |-> "destroy_all", description |-> "Destroy all enemy forces",
        targetType |-> Undef, count |-> Undef] >>

\* agent.ts:259-273: the mission returned from the catch block.
CatchFallback(difficulty, random) ==
    [seed |-> random, weather |-> Str("clear"), timeLimit |-> DefaultTimeLimit,
     entities |-> << Entity("TANK", 5, "scattered"), Entity("SAM_SITE", 2, "base"),
                     Entity("SOLDIER", 10, "scattered") >>,
     objectives |-> defaultObjectives,
     briefing |-> "Intelligence reports enemy activity in the area. Engage and destroy all hostile forces.",
     briefingDelta |-> Undef, difficulty |-> difficulty,
     airportCount |-> DefaultAirportCount, baseCount |-> DefaultBaseCount]

\* The content of a completion: text that JSON.parse turns into value v, or
\* text that is not JSON.
NotJson == [t |-> "not json"]
JsonText(v) == [t |-> "string", s |-> "json text", json |-> v]
BadText == [t |-> "string", s |-> "Sorry, I cannot help", json |-> NotJson]

\* What the generator call does: it rejects (an API error, or the client's
\* request timeout) or resolves with a completion whose content is content.
Rejects(why) == [kind |-> why]
Resolves(content) == [kind |-> "completion", content |-> content]

\* agent.ts:166-242: the normalisation of the parsed response; Threw when a
\* property of null is read.
Normalize(generated, difficulty, random) ==
    IF ReadThrows(generated) THEN Threw
    ELSE
    LET rawEntities == IF IsArray(Get(generated, "entities"))
                       THEN Get(generated, "entities").a ELSE << >>
        rawObjectives == IF IsArray(Get(generated, "objectives"))
                         THEN Get(generated, "objectives").a ELSE << >>
        keptEntities == Slice(rawEntities, EntityCap)
        keptObjectives == Slice(rawObjectives, ObjectiveCap)
        entities == IF Len(keptEntities) = 0 THEN defaultEntities(difficulty)
                    ELSE [i \in DOMAIN keptEntities |->
                             NormalizeEntity(keptEntities[i])]
        objectives == IF Len(rawObjectives) > 0
                      THEN [i \in DOMAIN keptObjectives |->
                               NormalizeObjective(keptObjectives[i])]
                      ELSE defaultObjectives
        seed == Get(generated, "seed")
        weather == Get(generated, "weather")
        briefing == Get(generated, "briefing")
        briefingDelta == Get(generated, "briefingDelta")
    IN  IF \/ \E i \in DOMAIN keptEntities : ReadThrows(keptEntities[i])
           \/ (Len(rawObjectives) > 0 /\
                 \E i \in DOMAIN keptObjectives : ReadThrows(keptObjectives[i]))
        THEN Threw
        ELSE [seed |-> IF TypeOf(seed) = "number" THEN seed.n ELSE random,
              weather |-> IF weather \in WEATHER_OPTIONS THEN weather
                          ELSE Str("clear"),
              timeLimit |-> Clamp(MinTimeLimit, MaxTimeLimit,
                                  Get(generated, "timeLimit"), DefaultTimeLimit),
              entities |-> entities,
              objectives |-> objectives,
              briefing |-> IF TypeOf(briefing) = "string" THEN briefing.s
                           ELSE "Engage and destroy enemy forces in the area.",
              briefingDelta |-> IF TypeOf(briefingDelta) = "string"
                                THEN briefingDelta ELSE Undef,
              difficulty |-> difficulty,
              airportCount |-> Clamp(0, MaxAirportCount,
                                     Get(generated, "airportCount"),
                                     DefaultAirportCount),
              baseCount |-> Clamp(0, MaxBaseCount, Get(generated, "baseCount"),
                                  DefaultBaseCount)]

\* agent.ts:139-255: the try block once the call has settled as resp.
TryBlock(difficulty, resp, random) ==
    IF resp.kind # "completion" THEN Threw
    ELSE IF ~Truthy(resp.content) THEN Threw
    ELSE IF resp.content.json = NotJson THEN Threw
    ELSE Normalize(resp.content.json, difficulty, random)

\* A handler without the catch block.
handlerNoCatch(difficulty, resp, random) == TryBlock(difficulty, resp, random)

\* agent.ts:54-275: what the handler returns once the call has settled.
handler(difficulty, resp, random) ==
    IF TryBlock(difficulty, resp, random) = Threw
    THEN CatchFallback(difficulty, random)
    ELSE TryBlock(difficulty, resp, random)

\* Raw entities and objectives of a response.
GoodEntity == Obj([type |-> Str("TANK"), count |-> Num(4), area |-> Str("base")])
EntityValues ==
    {Null, Num(5), GoodEntity, Obj([type |-> Num(1), quantity |-> Num(2)]),
     Obj([type |-> Str("SOLDIER"), count |-> Num(0)])}
GoodObjective ==
    Obj([type |-> Str("destroy_count"), targetType |-> Str("TANK"),
         count |-> Num(3), description |-> Str("Destroy the tanks")])
ObjectiveValues == {Null, GoodObjective, Obj([count |-> Str("3")])}

\* An array of n entries, all good but the last, which is last.
EndingWith(good, last, n) == [i \in 1..n |-> IF i = n THEN last ELSE good]

EntityArrays ==
    {Undef, Str("none")} \cup
    {Arr(EndingWith(GoodEntity, e, n)) :
        e \in EntityValues, n \in {0, 1, EntityCap, MaxEntitiesIn}}
ObjectiveArrays ==
    {Undef, Str("none")} \cup
    {Arr(EndingWith(GoodObjective, o, n)) :
        o \in ObjectiveValues, n \in 0..MaxObjectivesIn}

\* Parsed responses: every combination of the scalar fields with no lists,
\* and every combination of the two lists with the scalar fields missing or
\* as in the prompt's example.
ScalarResponses ==
    { Obj(f) : f \in [seed : {Undef, Num(7)},
                      weather : {Undef, Str("night"), Str("rain"), Num(1)},
                      timeLimit : {Undef, Num(0 - 5), Num(300), Num(900), Str("300")},
                      airportCount : {Undef, Num(0 - 1), Num(9)},
                      baseCount : {Undef, Num(3), Num(9)},
                      briefing : {Undef},
                      entities : {Undef}, objectives : {Undef}] }
ListResponses ==
    { Obj(f) : f \in [seed : {Undef, Num(7)}, weather : {Str("night")},
                      timeLimit : {Num(300)}, airportCount : {Num(2)},
                      baseCount : {Num(1)}, briefing : {Str("Under cover of darkness")},
                      entities : EntityArrays, objectives : ObjectiveArrays] }
ParsedResponses ==
    {Null, Num(5), Str("text"), Arr(<< >>), Obj(<< >>)}
    \cup ScalarResponses \cup ListResponses

\* Everything the generator call can do.
GeneratorOutcomes ==
    {Rejects("error"), Rejects("timeout"), Resolves(Undef), Resolves(Str("")),
     Resolves(BadText)}
    \cup {Resolves(JsonText(v)) : v \in ParsedResponses}

\* One outcome of each kind: the two rejections, no content, text that is
\* not JSON, JSON that is no object, a response with nothing in it, one with
\* a null among its entities or objectives, and well-formed ones.
SampleOutcomes ==
    {Rejects("error"), Rejects("timeout"), Resolves(Undef), Resolves(Str("")),
     Resolves(BadText)}
    \cup {Resolves(JsonText(v)) : v \in {Null, Num(5), Obj(<< >>)}}
    \cup {Resolves(JsonText(Obj([seed |-> s, entities |-> Arr(<< e >>),
                                 objectives |-> Arr(<< o >>)]))) :
             s \in {Undef, Num(7)}, e \in {Null, GoodEntity},
             o \in {Null, GoodObjective}}

\* agent.ts:55: the difficulty of the request, 'normal' when none is given.
Difficulty(req) == IF req = Undef THEN "normal" ELSE req.s

GenInit ==
    /\ gReq \in DIFFICULTY_OPTIONS \cup {Undef}
    /\ gResp \in GeneratorOutcomes
    /\ gPhase = "idle"
    /\ gRuns = << >>

GenInitSample ==
    /\ gReq \in DIFFICULTY_OPTIONS \cup {Undef}
    /\ gResp \in SampleOutcomes
    /\ gPhase = "idle"
    /\ gRuns = << >>

\* No generation request is made (the other specifications).
GenIdle ==
    /\ gReq = Undef
    /\ gResp = Rejects("error")
    /\ gPhase = "off"
    /\ gRuns = << >>

\* route.ts:9-12, agent.ts:54-147: a run starts and awaits the generator.
CallGenerator ==
    /\ gPhase \in {"idle", "done"}
    /\ Len(gRuns) < MaxRuns
    /\ gPhase' = "calling"
    /\ UNCHANGED <<gReq, gResp, gRuns, notGenVars>>

\* agent.ts:147-275: the call settles and the handler returns.
GeneratorSettles ==
    /\ gPhase = "calling"
    /\ \E random \in 1..MaxSeed :
          gRuns' = Append(gRuns, handler(Difficulty(gReq), gResp, random))
    /\ gPhase' = "done"
    /\ UNCHANGED <<gReq, gResp, notGenVars>>

GenNext == CallGenerator \/ GeneratorSettles

-----------------------------------------------------------------------------
(* The stats routes (src/unnamed/part_004): POST /event *)

\* Handlers of POST /event that can be in flight together.
MaxHandlers == 2
\* Event requests received in one run, any type.
MaxEvents == 3
\* Positive scores submitted in one run when events are handled in turn.
MaxSubmissions == 22
\* Positive scores range over 1..MaxScore.
MaxScore == 3

MAX_LEADERBOARD == 20

Handlers == 1..MaxHandlers
TotalNames == {"kills", "deaths", "missionsCompleted"}

\* A key-value lookup: no entry, or the entry's data.
Missing == [exists |-> FALSE]
Found(data) == [exists |-> TRUE, data |-> data]

ZeroTotals == [kills |-> 0, deaths |-> 0, missionsCompleted |-> 0]

\* Request bodies.  A missing count is Undef (the default 1 applies).
Event(type, count, name, score) ==
    [type |-> type, count |-> count, name |-> name, score |-> score]
NameFor(score) ==
    IF score = 1 THEN Undef ELSE IF score = 2 THEN Str("") ELSE Str("ACE")
HighScoreBodies ==
    {Event("high_score", Undef, NameFor(s), Num(s)) : s \in 1..MaxScore}
    \cup {Event("high_score", Undef, Str("ACE"), v) :
             v \in {Undef, Num(0), Num(0 - 4), Str("9")}}
CounterBodies ==
    {Event("kill", Undef, Undef, Undef), Event("kill", Num(2), Undef, Undef),
     Event("kill", Num(0 - 3), Undef, Undef),
     Event("death", Undef, Undef, Undef),
     Event("mission_complete", Undef, Undef, Undef)}
EventBodies ==
    CounterBodies
    \cup {Event("high_score", Undef, Str("ACE"), Num(MaxScore)),
          Event("high_score", Undef, Undef, Num(0)),
          Event("cheat", Undef, Undef, Undef)}

\* part_004:53: count = 1 when the body has none.
CountOf(body) == IF body.count = Undef THEN 1 ELSE body.count.n

\* part_004:60-69: the totals after the switch.
AddCount(totals, body) ==
    CASE body.type = "kill" -> [totals EXCEPT !.kills = @ + CountOf(body)]
      [] body.type = "death" -> [totals EXCEPT !.deaths = @ + CountOf(body)]
      [] body.type = "mission_complete" ->
            [totals EXCEPT !.missionsCompleted = @ + CountOf(body)]
      [] OTHER -> totals

\* part_004:71: the score test of a high_score event.
ScoreCounts(body) == TypeOf(body.score) = "number" /\ body.score.n > 0

\* part_004:78-82: the entry pushed.
Entry(body) ==
    [name |-> IF Truthy(body.name) THEN body.name.s ELSE "Anonymous",
     score |-> body.score.n, date |-> "now"]

\* Array.prototype.sort with (a, b) => b.score - a.score is stable: an entry
\* goes after every entry whose score is at least its own.
RECURSIVE InsertByScore(_, _)
InsertByScore(sorted, entry) ==
    IF sorted = << >> THEN << entry >>
    ELSE IF Head(sorted).score >= entry.score
         THEN << Head(sorted) >> \o InsertByScore(Tail(sorted), entry)
         ELSE << entry >> \o sorted

\* A sort that leaves the array as it is.
SortNone(board) == board

\* part_004:84: leaderboard.sort(...), as a stable insertion sort.
RECURSIVE SortByScore(_)
SortByScore(board) ==
    IF board = << >> THEN << >>
    ELSE InsertByScore(SortByScore(SubSeq(board, 1, Len(board) - 1)),
                       board[Len(board)])

\* part_004:78-85: push, sort, slice.
PushSortSlice(board, body) ==
    Slice(SortByScore(Append(board, Entry(body))), MAX_LEADERBOARD)

NoBody == [type |-> "none"]

StatsInit ==
    /\ kvTotals = Missing
    /\ kvLeaderboard = Missing
    /\ hPc = [p \in Handlers |-> "idle"]
    /\ hBody = [p \in Handlers |-> NoBody]
    /\ hTotals = [p \in Handlers |-> ZeroTotals]
    /\ hBoard = [p \in Handlers |-> << >>]
    /\ received = 0
    /\ acked = ZeroTotals
    /\ submitted = [s \in 1..MaxScore |-> 0]

\* The stats routes are not running (the other specifications).
StatsIdle ==
    /\ kvTotals = Missing
    /\ kvLeaderboard = Missing
    /\ hPc = << >>
    /\ hBody = << >>
    /\ hTotals = << >>
    /\ hBoard = << >>
    /\ received = 0
    /\ acked = ZeroTotals
    /\ submitted = << >>

\* The handler's locals once it has responded.
Respond(p) ==
    /\ hPc' = [hPc EXCEPT ![p] = "idle"]
    /\ hBody' = [hBody EXCEPT ![p] = NoBody]
    /\ hTotals' = [hTotals EXCEPT ![p] = ZeroTotals]
    /\ hBoard' = [hBoard EXCEPT ![p] = << >>]

\* part_004:50-55: handler p takes a request with body body and awaits the
\* totals.
Receive(p, body) ==
    /\ hPc[p] = "idle"
    /\ hPc' = [hPc EXCEPT ![p] = "get_totals"]
    /\ hBody' = [hBody EXCEPT ![p] = body]
    /\ UNCHANGED <<kvTotals, kvLeaderboard, hTotals, hBoard, acked, submitted,
                   notStatsVars>>

\* The number of positive scores handled so far, those up to score n.
RECURSIVE SubmittedUpTo(_)
SubmittedUpTo(n) == IF n = 0 THEN 0 ELSE submitted[n] + SubmittedUpTo(n - 1)

ReceiveEvent(p) ==
    /\ received < MaxEvents
    /\ received' = received + 1
    /\ \E body \in EventBodies : Receive(p, body)

ReceiveHighScore(p) ==
    /\ SubmittedUpTo(MaxScore) < MaxSubmissions
    /\ UNCHANGED received
    /\ \E body \in HighScoreBodies : Receive(p, body)

\* part_004:55-92: the totals arrive; the switch runs up to its next await,
\* or answers 400 for an unknown type.
GetTotals(p) ==
    /\ hPc[p] = "get_totals"
    /\ LET totals == IF kvTotals.exists THEN kvTotals.data ELSE ZeroTotals
           type == hBody[p].type
       IN  IF type \in {"kill", "death", "mission_complete"}
           THEN /\ hTotals' = [hTotals EXCEPT ![p] = AddCount(totals, hBody[p])]
                /\ hPc' = [hPc EXCEPT ![p] = "set_totals"]
                /\ UNCHANGED <<hBody, hBoard>>
           ELSE IF type = "high_score"
           THEN /\ hTotals' = [hTotals EXCEPT ![p] = totals]
                /\ hPc' = [hPc EXCEPT ![p] =
                              IF ScoreCounts(hBody[p]) THEN "get_leaderboard"
                              ELSE "set_totals"]
                /\ UNCHANGED <<hBody, hBoard>>
           ELSE Respond(p)
    /\ UNCHANGED <<kvTotals, kvLeaderboard, received, acked, submitted,
                   notStatsVars>>

\* part_004:72-87: the leaderboard arrives; push, sort, slice.
GetLeaderboard(p) ==
    /\ hPc[p] = "get_leaderboard"
    /\ hBoard' = [hBoard EXCEPT ![p] =
                     PushSortSlice(IF kvLeaderboard.exists
                                   THEN kvLeaderboard.data ELSE << >>, hBody[p])]
    /\ hPc' = [hPc EXCEPT ![p] = "set_leaderboard"]
    /\ UNCHANGED <<kvTotals, kvLeaderboard, hBody, hTotals, received, acked,
                   submitted, notStatsVars>>

\* part_004:87-89: the leaderboard is stored.
SetLeaderboard(p) ==
    /\ hPc[p] = "set_leaderboard"
    /\ kvLeaderboard' = Found(hBoard[p])
    /\ hPc' = [hPc EXCEPT ![p] = "set_totals"]
    /\ UNCHANGED <<kvTotals, hBody, hTotals, hBoard, received, acked,
                   submitted, notStatsVars>>

\* part_004:94-98: the totals are stored and the event acknowledged.
SetTotals(p) ==
    /\ hPc[p] = "set_totals"
    /\ kvTotals' = Found(hTotals[p])
    /\ acked' = AddCount(acked, hBody[p])
    /\ submitted' = IF hBody[p].type = "high_score" /\ ScoreCounts(hBody[p])
                    THEN [submitted EXCEPT ![hBody[p].score.n] = @ + 1]
                    ELSE submitted
    /\ Respond(p)
    /\ UNCHANGED <<kvLeaderboard, received, notStatsVars>>

\* part_004:99-102: a key-value call rejects; the handler answers 500.
KvFails(p) ==
    /\ hPc[p] \in {"get_totals", "get_leaderboard", "set_leaderboard", "set_totals"}
    /\ Respond(p)
    /\ UNCHANGED <<kvTotals, kvLeaderboard, received, acked, submitted,
                   notStatsVars>>

\* Any events, handlers running together.
StatsNext ==
    \E p \in Handlers :
        \/ ReceiveEvent(p)
        \/ GetTotals(p)
        \/ GetLeaderboard(p)
        \/ SetLeaderboard(p)
        \/ SetTotals(p)
        \/ KvFails(p)

\* High-score events handled one at a time by one handler, the store
\* answering every call.
LeaderboardNext ==
    \/ ReceiveHighScore(1)
    \/ GetTotals(1)
    \/ GetLeaderboard(1)
    \/ SetLeaderboard(1)
    \/ SetTotals(1)

-----------------------------------------------------------------------------
(* Combat, difficulty, slope and angle utilities (game-utils.ts) *)

\* Longest samples list, and heights range over -MaxHeight..MaxHeight.
MaxSamples == 3
MaxHeight == 2
\* Angles range over -MaxAngle..MaxAngle quarter turns.
MaxAngle == 12

\* A multiplier, in tenths: Tenths(5) is 0.5, Tenths(10) is 1.0.
Tenths(n) == [t |-> "number", tenths |-> n]
\* A function or object found on the prototype chain under name.
Inherited(name) == [t |-> "inherited", name |-> name]

WeaponTypes == {"cannon", "rocket", "missile", "bomb", "rifle", "sniper", "launcher"}
DamageTargetTypes == {"TANK", "SAM_SITE", "SOLDIER", "BUILDING", "HELICOPTER"}

\* An object literal with the own properties own.
Literal(own) == [t |-> "literal", own |-> own]

Row(tank, sam, soldier, building, helicopter) ==
    Literal([TANK |-> Tenths(tank), SAM_SITE |-> Tenths(sam),
             SOLDIER |-> Tenths(soldier), BUILDING |-> Tenths(building),
             HELICOPTER |-> Tenths(helicopter)])

\* game-utils.ts:275-283, in tenths.
DAMAGE_MULTIPLIERS ==
    Literal([cannon   |-> Row(5, 10, 20, 3, 15),
             rocket   |-> Row(15, 15, 10, 10, 10),
             missile  |-> Row(20, 20, 5, 15, 20),
             bomb     |-> Row(25, 20, 15, 30, 5),
             rifle    |-> Row(1, 2, 10, 1, 3),
             sniper   |-> Row(2, 5, 30, 2, 5),
             launcher |-> Row(20, 15, 5, 10, 25)])

\* Names every object literal inherits from Object.prototype (some of them).
ObjectPrototypeNames == {"constructor", "toString", "hasOwnProperty"}

\* object[key]: an own property of an object literal, else what the
\* prototype chain holds under key, else undefined.
Property(object, key) ==
    IF object.t = "literal" /\ key \in DOMAIN object.own THEN object.own[key]
    ELSE IF key \in ObjectPrototypeNames THEN Inherited(key)
    ELSE Undef

\* a ?? b
Coalesce(a, b) == IF a \in {Undef, Null} THEN b ELSE a

\* game-utils.ts:288-290: DAMAGE_MULTIPLIERS[weaponType]?.[targetType] ?? 1.0
getDamageMultiplier(weaponType, targetType) ==
    LET row == Property(DAMAGE_MULTIPLIERS, weaponType)
        cell == IF row \in {Undef, Null} THEN Undef
                ELSE Property(row, targetType)
    IN  Coalesce(cell, Tenths(10))

\* game-utils.ts:255-270.
Category(armored, infantry, structure, air) ==
    [armored |-> armored, infantry |-> infantry, structure |-> structure,
     air |-> air]

\* A switch whose SAM_SITE case falls into the SOLDIER case's flag as well.
getTargetDamageCategoryTwoFlags(targetType) ==
    CASE targetType = "TANK" -> Category(TRUE, FALSE, FALSE, FALSE)
      [] targetType = "SAM_SITE" -> Category(TRUE, TRUE, FALSE, FALSE)
      [] targetType = "SOLDIER" -> Category(FALSE, TRUE, FALSE, FALSE)
      [] targetType = "BUILDING" -> Category(FALSE, FALSE, TRUE, FALSE)
      [] targetType = "HELICOPTER" -> Category(FALSE, FALSE, FALSE, TRUE)
      [] OTHER -> Category(FALSE, FALSE, FALSE, FALSE)

getTargetDamageCategory(targetType) ==
    CASE targetType = "TANK" -> Category(TRUE, FALSE, FALSE, FALSE)
      [] targetType = "SAM_SITE" -> Category(TRUE, FALSE, FALSE, FALSE)
      [] targetType = "SOLDIER" -> Category(FALSE, TRUE, FALSE, FALSE)
      [] targetType = "BUILDING" -> Category(FALSE, FALSE, TRUE, FALSE)
      [] targetType = "HELICOPTER" -> Category(FALSE, FALSE, FALSE, TRUE)
      [] OTHER -> Category(FALSE, FALSE, FALSE, FALSE)

\* A normalisation that hands every string back.
normalizeDifficultyKeepsStrings(difficulty) ==
    IF difficulty.t = "string" THEN difficulty ELSE Str("medium")

\* game-utils.ts:16-22.
normalizeDifficulty(difficulty) ==
    IF difficulty = Str("normal") THEN Str("medium")
    ELSE IF difficulty \in {Str("easy"), Str("medium"), Str("hard"), Str("extreme")}
         THEN difficulty
    ELSE Str("medium")

\* A deviation that keeps its sign.
DeviationSigned(sample, center) == sample - center

\* Math.abs(sample - centerHeight)
Deviation(sample, center) == Abs(sample - center)

\* game-utils.ts:229-234: the loop from index i (from 0) on; an undefined
\* sample is skipped.
RECURSIVE SlopeLoop(_, _, _, _)
SlopeLoop(samples, i, centerHeight, maxDiff) ==
    IF i >= Len(samples) THEN maxDiff
    ELSE LET sample == samples[i + 1]
         IN  IF sample = Undef
             THEN SlopeLoop(samples, i + 1, centerHeight, maxDiff)
             ELSE SlopeLoop(samples, i + 1, centerHeight,
                            Max2(maxDiff, Deviation(sample.n, centerHeight)))

\* The deviations measured from height 0 instead of from the center sample.
estimateSlopeFromZero(samples) ==
    IF Len(samples) <= 1 THEN 0
    ELSE SlopeLoop(samples, 1, 0, 0)

\* game-utils.ts:226-236.
estimateSlopeFromSamples(samples) ==
    IF Len(samples) <= 1 THEN 0
    ELSE SlopeLoop(samples, 1, Coalesce(samples[1], Num(0)).n, 0)

\* Math.PI in the model's unit, the quarter turn (pi / 2).
PI == 2

\* The second loop with <= for <.
RECURSIVE RaiseAngleInclusive(_)
RaiseAngleInclusive(angle) ==
    IF angle <= 0 - PI THEN RaiseAngleInclusive(angle + PI * 2) ELSE angle

\* game-utils.ts:169: while (angle > Math.PI) angle -= Math.PI * 2
RECURSIVE LowerAngle(_)
LowerAngle(angle) ==
    IF angle > PI THEN LowerAngle(angle - PI * 2) ELSE angle

\* game-utils.ts:170: while (angle < -Math.PI) angle += Math.PI * 2
RECURSIVE RaiseAngle(_)
RaiseAngle(angle) ==
    IF angle < 0 - PI THEN RaiseAngle(angle + PI * 2) ELSE angle

\* game-utils.ts:168-172.
normalizeAngleToRange(angle) == RaiseAngle(LowerAngle(angle))

\* The calls made: a function and its arguments.
Call(fn, args) == [fn |-> fn, args |-> args]
Value(v) == [status |-> "returned", value |-> v]

\* Weapon and target type strings: those of the tables, names outside them,
\* and a missing argument (the key "undefined").
WeaponInputs == WeaponTypes \cup {"laser", "undefined", "constructor"}
TargetInputs ==
    DamageTargetTypes
    \cup {"UNKNOWN", "AIR_FIGHTER", "AIR_ATTACK_HELI", "undefined",
          "constructor", "toString"}
DifficultyInputs ==
    {Undef, Null, Str("normal"), Str("easy"), Str("medium"), Str("hard"),
     Str("extreme"), Str(""), Str("invalid"), Str("EASY")}
Heights == {Num(h) : h \in (0 - MaxHeight)..MaxHeight}
SlopeInputs ==
    SeqsUpTo(Heights, MaxSamples)
    \cup {<< Num(10), Num(40), Num(18) >>, << Num(20), Num(40), Num(18) >>,
          << Num(10), Num(12), Num(11), Num(13) >>, << Num(5), Num(100) >>,
          << Num(7) >>, << Num(1), Undef, Num(3) >>, << Undef, Num(2) >>}
AngleInputs == (0 - MaxAngle)..MaxAngle

UtilCalls ==
    {Call("getDamageMultiplier", << w, t >>) : w \in WeaponInputs, t \in TargetInputs}
    \cup {Call("getTargetDamageCategory", << t >>) : t \in TargetInputs}
    \cup {Call("normalizeDifficulty", << d >>) : d \in DifficultyInputs}
    \cup {Call("estimateSlopeFromSamples", << s >>) : s \in SlopeInputs}
    \cup {Call("normalizeAngleToRange", << a >>) : a \in AngleInputs}

UtilInit ==
    /\ uCall \in UtilCalls
    /\ uOut = NoCall

\* No utility call is made (the other specifications).
UtilIdle ==
    /\ uCall = Call("none", << >>)
    /\ uOut = NoCall

CallGetDamageMultiplier ==
    /\ uCall.fn = "getDamageMultiplier" /\ uOut = NoCall
    /\ uOut' = Value(getDamageMultiplier(uCall.args[1], uCall.args[2]))
    /\ UNCHANGED <<uCall, notUtilVars>>

CallGetTargetDamageCategory ==
    /\ uCall.fn = "getTargetDamageCategory" /\ uOut = NoCall
    /\ uOut' = Value(getTargetDamageCategory(uCall.args[1]))
    /\ UNCHANGED <<uCall, notUtilVars>>

CallNormalizeDifficulty ==
    /\ uCall.fn = "normalizeDifficulty" /\ uOut = NoCall
    /\ uOut' = Value(normalizeDifficulty(uCall.args[1]))
    /\ UNCHANGED <<uCall, notUtilVars>>

CallEstimateSlopeFromSamples ==
    /\ uCall.fn = "estimateSlopeFromSamples" /\ uOut = NoCall
    /\ uOut' = Value(estimateSlopeFromSamples(uCall.args[1]))
    /\ UNCHANGED <<uCall, notUtilVars>>

CallNormalizeAngleToRange ==
    /\ uCall.fn = "normalizeAngleToRange" /\ uOut = NoCall
    /\ uOut' = Value(normalizeAngleToRange(uCall.args[1]))
    /\ UNCHANGED <<uCall, notUtilVars>>

UtilNext ==
    \/ CallGetDamageMultiplier
    \/ CallGetTargetDamageCategory
    \/ CallNormalizeDifficulty
    \/ CallEstimateSlopeFromSamples
    \/ CallNormalizeAngleToRange

-----------------------------------------------------------------------------
(* findNearestTarget and distance3DWrapped on the same points *)

\* Origins and candidates lie on -1..MaxPair + 1, one step beyond the
\* widest map on either side.
MaxPair == 3

PairCoords == (0 - 1)..(MaxPair + 1)
PairTargets == [x : PairCoords, y : {0, MaxPair}, pass : {TRUE}]
PairInputs ==
    [x : PairCoords, y : {0}, z : {0, MaxPair},
     targets : [1..2 -> PairTargets], mapSize : 1..(MaxPair + 1)]

PairInit ==
    /\ cIn \in PairInputs
    /\ cNear = NoCall
    /\ cNearBack = NoCall
    /\ cWrapped = NoCall

\* No comparison is under way (the other specifications).
PairIdle ==
    /\ cIn = << >>
    /\ cNear = NoCall
    /\ cNearBack = NoCall
    /\ cWrapped = NoCall

\* findNearestTarget(targets, x, y, Infinity, undefined, mapSize): the
\* distance it computes for each candidate (game-utils.ts:197-205) and the
\* candidate it returns.
CallFindNearestTargetOfTwo ==
    /\ cNear = NoCall
    /\ cNear' = [status |-> "returned",
                 dist |-> [i \in 1..2 |->
                     TargetDistSq(cIn.targets[i], cIn.x, cIn.y, cIn.mapSize)],
                 nearest |-> findNearestTarget(cIn.targets, cIn.x, cIn.y,
                                 Infinity, FALSE, cIn.mapSize)]
    /\ UNCHANGED <<cIn, cNearBack, cWrapped, notPairVars>>

\* findNearestTarget from each candidate's position with the origin as the
\* only target: the distance it computes.
CallFindNearestTargetBack ==
    /\ cNearBack = NoCall
    /\ cNearBack' = [status |-> "returned",
                     dist |-> [i \in 1..2 |->
                         TargetDistSq([x |-> cIn.x, y |-> cIn.y, pass |-> TRUE],
                             cIn.targets[i].x, cIn.targets[i].y, cIn.mapSize)]]
    /\ UNCHANGED <<cIn, cNear, cWrapped, notPairVars>>

\* distance3DWrapped between the origin and each candidate at the origin's
\* altitude, in both orders of the two points.
CallDistance3DWrappedBothWays ==
    /\ cWrapped = NoCall
    /\ cWrapped' = [status |-> "returned",
                    to |-> [i \in 1..2 |->
                        distance3DWrapped(cIn.x, cIn.y, cIn.z,
                            cIn.targets[i].x, cIn.targets[i].y, cIn.z,
                            cIn.mapSize)],
                    from |-> [i \in 1..2 |->
                        distance3DWrapped(cIn.targets[i].x, cIn.targets[i].y,
                            cIn.z, cIn.x, cIn.y, cIn.z, cIn.mapSize)]]
    /\ UNCHANGED <<cIn, cNear, cNearBack, notPairVars>>

PairNext ==
    \/ CallFindNearestTargetOfTwo
    \/ CallFindNearestTargetBack
    \/ CallDistance3DWrappedBothWays

-----------------------------------------------------------------------------
(* Specifications *)

InitDist == DistInit /\ NearIdle /\ MissionIdle /\ ValIdle /\ SaveIdle /\ GenIdle /\ StatsIdle /\ UtilIdle /\ PairIdle
SpecDist == InitDist /\ [][DistNext]_vars

InitNearest == NearInit /\ DistIdle /\ MissionIdle /\ ValIdle /\ SaveIdle /\ GenIdle /\ StatsIdle /\ UtilIdle /\ PairIdle
SpecNearest == InitNearest /\ [][NearNext]_vars

InitMission == MissionInit /\ DistIdle /\ NearIdle /\ ValIdle /\ SaveIdle /\ GenIdle /\ StatsIdle /\ UtilIdle /\ PairIdle
SpecMission == InitMission /\ [][MissionNext]_vars

InitValidate == ValInit /\ DistIdle /\ NearIdle /\ MissionIdle /\ SaveIdle /\ GenIdle /\ StatsIdle /\ UtilIdle /\ PairIdle
SpecValidate == InitValidate /\ [][ValNext]_vars

InitSave == SaveInit /\ DistIdle /\ NearIdle /\ MissionIdle /\ ValIdle /\ GenIdle /\ StatsIdle /\ UtilIdle /\ PairIdle
SpecSave == InitSave /\ [][SaveNext]_vars

InitGenerate == GenInit /\ DistIdle /\ NearIdle /\ MissionIdle /\ ValIdle /\ SaveIdle /\ StatsIdle /\ UtilIdle /\ PairIdle
SpecGenerate == InitGenerate /\ [][GenNext]_vars

InitStats == StatsInit /\ DistIdle /\ NearIdle /\ MissionIdle /\ ValIdle /\ SaveIdle /\ GenIdle /\ UtilIdle /\ PairIdle
SpecStats == InitStats /\ [][StatsNext]_vars

SpecLeaderboard == InitStats /\ [][LeaderboardNext]_vars

InitUtil == UtilInit /\ DistIdle /\ NearIdle /\ MissionIdle /\ ValIdle /\ SaveIdle /\ GenIdle /\ StatsIdle /\ PairIdle
SpecUtil == InitUtil /\ [][UtilNext]_vars

InitPair == PairInit /\ DistIdle /\ NearIdle /\ MissionIdle /\ ValIdle /\ SaveIdle /\ GenIdle /\ StatsIdle /\ UtilIdle
SpecPair == InitPair /\ [][PairNext]_vars

\* The generator call always settles: the client rejects a call that gets
\* no response when its request timeout expires.
InitGenerateLive == GenInitSample /\ DistIdle /\ NearIdle /\ MissionIdle /\ ValIdle /\ SaveIdle /\ StatsIdle /\ UtilIdle /\ PairIdle
SpecGenerateLive ==
    InitGenerateLive /\ [][GenNext]_vars /\ WF_vars(GeneratorSettles)

-----------------------------------------------------------------------------
(* Claims about the distance functions *)

\* Shifts of a periodic image: enough of them to bring any coordinate
\* difference of the model back within one map size.
ImageShifts == (0 - 2 * MaxCoord)..(2 * MaxCoord)

\* The least radicand over the periodic images (b.x + i * mapSize,
\* b.y + j * mapSize, b.z) of the second point.
MinImageSq(in) ==
    SetMin({ distance3D(in.x1, in.y1, in.z1,
                        in.x2 + i * in.mapSize, in.y2 + j * in.mapSize, in.z2) :
             i \in ImageShifts, j \in ImageShifts })

\* C1: for every even mapSize > 0 and every two points, also points outside
\* [0, mapSize), distance3DWrapped equals the least distance over all
\* periodic images of the second point (z is never wrapped).
C1_WrappedIsMinImage ==
    (dWrapped # NotCalled /\ dIn.mapSize > 0 /\ dIn.mapSize % 2 = 0)
        => dWrapped = MinImageSq(dIn)

\* C2: distance3DWrapped(a, b, mapSize) <= distance3D(a, b) for every map
\* size (an edge length, so not negative), with equality when neither the
\* x nor the y difference exceeds mapSize / 2 in magnitude.
C2_WrappedAtMostPlain ==
    (dWrapped # NotCalled /\ dPlain # NotCalled) =>
        /\ dWrapped <= dPlain
        /\ (/\ 2 * Abs(dIn.x1 - dIn.x2) <= dIn.mapSize
            /\ 2 * Abs(dIn.y1 - dIn.y2) <= dIn.mapSize) => dWrapped = dPlain

\* C2 witness: both functions were called on a pair that wraps, and the
\* wrapped distance is the shorter one.
C2_Witness ==
    /\ dWrapped # NotCalled
    /\ dPlain # NotCalled
    /\ dIn.mapSize > 0
    /\ 2 * Abs(dIn.x1 - dIn.x2) > dIn.mapSize
    /\ dWrapped < dPlain

-----------------------------------------------------------------------------
(* Claims about findNearestTarget *)

NearCalled == nOut # NotCalled
NearIdx == 1..Len(nIn.targets)

\* The length of one axis delta as the claims word it: shortened by mapSize
\* when its magnitude exceeds mapSize / 2 on a wrapping map, plain otherwise.
ClaimAxis(d, mapSize) ==
    IF mapSize > 0 /\ 2 * Abs(d) > mapSize
    THEN Abs(Abs(d) - mapSize)
    ELSE Abs(d)

\* Radicand of the distance from the origin to the i-th candidate.
ClaimDistSq(i) ==
    LET ax == ClaimAxis(nIn.targets[i].x - nIn.x, nIn.mapSize)
        ay == ClaimAxis(nIn.targets[i].y - nIn.y, nIn.mapSize)
    IN  ax * ax + ay * ay

Passes(i) == ~nIn.hasFilter \/ nIn.targets[i].pass

WithinMaxDist(i) ==
    nIn.maxDist = Infinity \/ ClaimDistSq(i) < nIn.maxDist * nIn.maxDist

Qualifies(i) == Passes(i) /\ WithinMaxDist(i)

\* C3: a returned target is a candidate of the list that passes the filter,
\* lies strictly within maxDist, and has no filter-passing candidate strictly
\* nearer, by the wrapped distance when mapSize > 0 and the plain one when
\* mapSize = 0; on the 100-wide map the target at x = 5 beats the one at
\* x = 60 for the origin x = 95.
C3_NearestIsNearest ==
    /\ (NearCalled /\ nOut # NullTarget) =>
          /\ nOut \in NearIdx
          /\ Passes(nOut)
          /\ WithinMaxDist(nOut)
          /\ \A j \in NearIdx : Passes(j) => ClaimDistSq(nOut) <= ClaimDistSq(j)
    /\ (NearCalled /\ nIn = WrapExample) => nOut = 1

\* C3 witness: the call on the 100-wide map returned the target at x = 5,
\* whose plain distance (90) is the larger of the two.
C3_Witness ==
    /\ nIn = WrapExample
    /\ nOut = 1
    /\ Abs(nIn.targets[1].x - nIn.x) > Abs(nIn.targets[2].x - nIn.x)

\* C4: the result is null exactly when no candidate both passes the filter
\* and lies strictly within maxDist; when exactly one candidate qualifies,
\* it is the result.
C4_NullIffNoneQualifies ==
    NearCalled =>
        /\ (nOut = NullTarget) <=> (\A i \in NearIdx : ~Qualifies(i))
        /\ \A i \in NearIdx :
              (Qualifies(i) /\ \A j \in NearIdx \ {i} : ~Qualifies(j)) => nOut = i

\* C4 witness: null was returned for a list whose only filter-passing
\* candidates are at or beyond maxDist, one of them exactly at maxDist.
C4_Witness ==
    /\ NearCalled
    /\ nOut = NullTarget
    /\ nIn.maxDist # Infinity
    /\ \E i \in NearIdx :
          Passes(i) /\ ClaimDistSq(i) = nIn.maxDist * nIn.maxDist

\* C5: among filter-passing candidates at the same minimum distance the
\* first of the list is returned.
C5_TieKeepsEarliest ==
    (NearCalled /\ nOut # NullTarget) =>
        \A j \in NearIdx :
            (Passes(j) /\ ClaimDistSq(j) = ClaimDistSq(nOut)) => nOut <= j

\* C5 witness: a later filter-passing candidate ties with the one returned.
C5_Witness ==
    /\ NearCalled
    /\ nOut # NullTarget
    /\ \E j \in NearIdx :
          j > nOut /\ Passes(j) /\ ClaimDistSq(j) = ClaimDistSq(nOut)

-----------------------------------------------------------------------------
(* Claims about the mission and objective state machine *)

MissionOver == mission \in {"victory", "defeat"}
ObjIdx == 1..Len(objs)
AllSatisfied == \A i \in ObjIdx : objState[i] = "satisfied"

\* C6: a mission that reached victory or defeat never leaves that state, and
\* a satisfied or failed objective never changes state again, whatever kill,
\* timer, position or player-death events arrive afterwards.
C6_TerminalStatesStay ==
    [][ /\ MissionOver => mission' = mission
        /\ \A i \in ObjIdx : Terminal(objState[i]) => objState'[i] = objState[i]
      ]_vars

\* C6 witness: an event was delivered to a mission already won, which is
\* still won.
C6_Witness ==
    /\ mission = "victory"
    /\ afterEnd

\* C7: a mission is in victory only if all its objectives are satisfied, and
\* a mission whose objectives are all satisfied is in victory, neither still
\* playing nor in defeat.
C7_VictoryIffAllSatisfied ==
    /\ mission = "victory" => AllSatisfied
    /\ (mission \in {"playing", "defeat"}) => ~AllSatisfied

\* C7 witness: victory on the very tick the time limit elapses, with two
\* objectives.
C7_Witness ==
    /\ mission = "victory"
    /\ elapsed >= TimeLimit
    /\ Len(objs) = 2

\* What the spec names as the causes of defeat.
DefeatCause ==
    \/ \E i \in ObjIdx : objState[i] = "failed"
    \/ ~playerAlive
    \/ elapsed >= TimeLimit /\ ~AllSatisfied

SingleDestroyCount == Len(objs) = 1 /\ objs[1].type = "destroy_count"

\* C9, the states: with destroy_count(T, n) as the only objective, fewer than
\* n kills of type T leave the objective open and the mission short of
\* victory; the n-th makes the objective satisfied and the mission victory.
C9_CountDecides ==
    SingleDestroyCount =>
        LET T == objs[1].targetType
            n == objs[1].count
        IN  /\ kills[T] < n =>
                 /\ objState[1] = (IF mission = "briefing" THEN "pending"
                                                          ELSE "in_progress")
                 /\ mission # "victory"
            /\ kills[T] >= n =>
                 /\ kills[T] = n
                 /\ objState[1] = "satisfied"
                 /\ mission = "victory"

\* C9, the steps: a type's counter advances by one exactly when an entity of
\* that type dies, so kills of other types never advance it.
C9_CounterPerType ==
    \A t \in TargetTypes :
        /\ kills'[t] - kills[t] = alive[t] - alive'[t]
        /\ kills'[t] \in {kills[t], kills[t] + 1}

\* C9: for a mission whose only objective is destroy_count with type T and
\* count n, the objective is satisfied and the mission is victory exactly
\* from the n-th kill event of type T on; kill events of other types do not
\* advance the counter.
C9_DestroyCountVictory == []C9_CountDecides /\ [][C9_CounterPerType]_vars

\* C9 witness: destroy_count(TANK, 2) won by the second TANK kill, a SOLDIER
\* kill having been reported too.
C9_Witness ==
    /\ objs = << Objective("destroy_count", "TANK", 2, 0) >>
    /\ mission = "victory"
    /\ kills["TANK"] = 2
    /\ kills["SOLDIER"] >= 1

-----------------------------------------------------------------------------
(* Claims about validateMission *)

\* C10: for every input value (non-objects, arrays, objects with missing or
\* wrongly typed fields, spawnZones arrays holding null or non-object
\* entries) validateMission returns {valid, errors, warnings} without
\* throwing, and valid is true exactly when errors is empty.
C10_ValidateNeverThrows ==
    vOut # NoCall =>
        /\ vOut.status = "returned"
        /\ vOut.valid <=> (vOut.errors = << >>)


\* The entries of the mission's spawn zones: those of the spawnZones array,
\* none when the mission has no such array.
ClaimZones(m) ==
    IF m.t = "object" /\ "spawnZones" \in DOMAIN m.f /\ m.f.spawnZones.t = "array"
    THEN m.f.spawnZones.a ELSE << >>

\* Property k of mission m is present and a number.
NumericField(m, k) ==
    /\ m.t = "object"
    /\ k \in DOMAIN m.f
    /\ m.f[k].t = "number"

\* The fields of mission m that break a rule, each with the index of the
\* spawn zone when it is one.
RuleBreaks(m) ==
    LET Break(field, ok) == IF ok THEN {} ELSE {<<field, NoIndex>>}
        zs == ClaimZones(m)
    IN  Break("missionId", NumericField(m, "missionId"))
        \cup Break("name", /\ m.t = "object" /\ "name" \in DOMAIN m.f
                           /\ m.f.name.t = "string"
                           /\ m.f.name.s \notin {"", " ", "  "})
        \cup Break("mapIndex", NumericField(m, "mapIndex") /\ m.f.mapIndex.n >= 1)
        \cup Break("playerStart", /\ m.t = "object"
                                  /\ "playerStart" \in DOMAIN m.f
                                  /\ NumericField(m.f.playerStart, "x")
                                  /\ NumericField(m.f.playerStart, "y"))
        \cup {<<"spawnZones", j - 1>> : j \in {i \in DOMAIN zs :
                  ~ (NumericField(zs[i], "x") /\ NumericField(zs[i], "y"))}}

ErrorsNamed(result) ==
    {<<result.errors[i].field, result.errors[i].index>> :
        i \in DOMAIN result.errors}

CountValues == {Undef, Null, Num(0 - 1), Num(3), Str("5")}

\* Spawn zone zone with its count set to c (other entries stay as they are).
WithCount(zone, c) ==
    IF zone.t # "object" THEN zone
    ELSE IF c = Undef
         THEN Obj([k \in DOMAIN zone.f \ {"count"} |-> zone.f[k]])
         ELSE Obj([k \in DOMAIN zone.f \cup {"count"} |->
                      IF k = "count" THEN c ELSE zone.f[k]])

\* The missions that differ from mission m in one of: its difficulty, its
\* weather, the count of one spawn zone.  Any change of these fields alone is
\* a chain of such steps.
WarningFieldVariants(m) ==
    {Obj([m.f EXCEPT !.difficulty = d]) : d \in DifficultyValues}
    \cup {Obj([m.f EXCEPT !.weather = w]) : w \in WeatherValues}
    \cup {Obj([m.f EXCEPT !.spawnZones = Arr([@.a EXCEPT ![i] = WithCount(@, c)])]) :
              i \in DOMAIN ClaimZones(m), c \in CountValues}

WarningsNamed(result) ==
    {<<result.warnings[i].field, result.warnings[i].index>> :
        i \in DOMAIN result.warnings}

\* The warnings mission m is due: a difficulty or weather given (present and
\* non-empty) but not among the known ones, a spawn-zone count present but
\* negative or not a number.
WarningsDue(m) ==
    LET Due(field, given, known) ==
            IF given.t # "undefined" /\ given # Str("") /\ given \notin known
            THEN {<<field, NoIndex>>} ELSE {}
        zs == ClaimZones(m)
    IN  Due("difficulty", m.f.difficulty, KnownDifficulties)
        \cup Due("weather", m.f.weather, KnownWeathers)
        \cup {<<"spawnZones.count", j - 1>> : j \in {i \in DOMAIN zs :
                  /\ zs[i].t = "object"
                  /\ "count" \in DOMAIN zs[i].f
                  /\ ~ (zs[i].f.count.t = "number" /\ zs[i].f.count.n >= 0)}}

\* C12: an unknown difficulty, an unknown weather and a spawn-zone count
\* that is negative or not a number each add a warning and never an error;
\* changing only these fields of a mission never changes what
\* validateMission reports as valid (nor its errors).
C12_WarningsNeverInvalidate ==
    (vOut # NoCall /\ vIn.t = "object" /\ DOMAIN vIn.f # {}) =>
        /\ \A m2 \in WarningFieldVariants(vIn) :
              LET other == validateMission(m2)
              IN  /\ other.status = vOut.status
                  /\ vOut.status = "returned" =>
                        /\ other.valid = vOut.valid
                        /\ other.errors = vOut.errors
        /\ vOut.status = "returned" =>
              /\ WarningsNamed(vOut) = WarningsDue(vIn)
              /\ ErrorsNamed(vOut) \cap WarningsDue(vIn) = {}
              /\ \A e \in ErrorsNamed(vOut) :
                    e[1] \notin {"difficulty", "weather", "spawnZones.count"}

\* A mission accepted with all three kinds of warning.
C12_Witness ==
    /\ vOut.status = "returned"
    /\ vOut.valid
    /\ {w[1] : w \in WarningsNamed(vOut)}
          = {"difficulty", "weather", "spawnZones.count"}


\* v is a number within the map bounds [0, MAP_SIZE].
InMapBounds(v) == v.t = "number" /\ v.n >= 0 /\ v.n <= MAP_SIZE

\* The Mission invariant as far as one mission goes: playerStart inside the
\* map bounds, every spawn zone with numeric coordinates and, when it has a
\* count, a non-negative one.
MissionInvariant(m) ==
    /\ m.t = "object"
    /\ "playerStart" \in DOMAIN m.f
    /\ m.f.playerStart.t = "object"
    /\ {"x", "y"} \subseteq DOMAIN m.f.playerStart.f
    /\ InMapBounds(m.f.playerStart.f.x)
    /\ InMapBounds(m.f.playerStart.f.y)
    /\ \A i \in DOMAIN ClaimZones(m) :
          LET zone == ClaimZones(m)[i]
          IN  /\ NumericField(zone, "x")
              /\ NumericField(zone, "y")
              /\ "count" \in DOMAIN zone.f =>
                    (zone.f.count.t = "number" /\ zone.f.count.n >= 0)

\* C13: every mission validateMission accepts (valid = true) satisfies the
\* Mission invariant: playerStart.x and playerStart.y inside [0, mapSize],
\* every spawn zone with numeric coordinates and a non-negative count.
C13_AcceptedMeetsInvariant ==
    (vOut.status = "returned" /\ vOut.valid) => MissionInvariant(vIn)

-----------------------------------------------------------------------------
(* Claims about the save-mission route *)

StoredIds == {n \in DOMAIN files : files[n] # NoFile}

\* C14: after any sequence of save-mission requests every stored mission
\* file passes validateMission and no two stored files carry the same
\* missionId.
C14_StoredFilesValidAndUnique ==
    /\ \A n \in StoredIds :
          LET result == validateMission(files[n])
          IN  result.status = "returned" /\ result.valid
    /\ \A n1, n2 \in StoredIds :
          n1 # n2 => Get(files[n1], "missionId") # Get(files[n2], "missionId")

-----------------------------------------------------------------------------
(* Claims about the mission agent *)

\* The raw list under key of the generator's response, << >> when the
\* response carries no such array.
RawList(key) ==
    IF /\ gResp.kind = "completion"
       /\ gResp.content.t = "string"
       /\ gResp.content # Str("")
       /\ gResp.content.json.t = "object"
       /\ key \in DOMAIN gResp.content.json.f
       /\ gResp.content.json.f[key].t = "array"
    THEN gResp.content.json.f[key].a ELSE << >>

\* C15: for every response of the generator the mission the agent returns
\* has timeLimit in [60, 600], at most 20 entity specs, 1 to 5 objectives, a
\* weather among clear, dusk, night, fog, storm, airportCount in [0, 3] and
\* baseCount in [0, 5].
C15_MissionWithinLimits ==
    \A i \in DOMAIN gRuns :
        /\ gRuns[i] # Threw
        /\ gRuns[i].timeLimit >= 60 /\ gRuns[i].timeLimit <= 600
        /\ Len(gRuns[i].entities) <= 20
        /\ Len(gRuns[i].objectives) >= 1 /\ Len(gRuns[i].objectives) <= 5
        /\ gRuns[i].weather.t = "string"
        /\ gRuns[i].weather.s \in {"clear", "dusk", "night", "fog", "storm"}
        /\ gRuns[i].airportCount \in 0..3
        /\ gRuns[i].baseCount \in 0..5

\* A response with more than 20 entities and more than 5 objectives, none of
\* them null, has been normalised.
C15_Witness ==
    /\ Len(gRuns) > 0
    /\ Len(RawList("entities")) > 20
    /\ Len(RawList("objectives")) > 5
    /\ Len(gRuns[1].entities) = 20
    /\ Len(gRuns[1].objectives) = 5

\* The generation call failed, returned no content, or returned text that is
\* not JSON.
GenerationFailed ==
    \/ gResp.kind # "completion"
    \/ gResp.content \in {Undef, Str("")}
    \/ gResp.content.json = NotJson

\* C16: when the generation call fails, returns no content or returns text
\* that is not JSON, the agent still returns a mission, and its entities and
\* objectives are the defaults of the requested difficulty level.
C16_FailureGivesDifficultyDefaults ==
    GenerationFailed =>
        \A i \in DOMAIN gRuns :
            /\ gRuns[i] # Threw
            /\ gRuns[i].entities = defaultEntities(Difficulty(gReq))
            /\ gRuns[i].objectives = defaultObjectives

C18_RunsAgree ==
    \A i, j \in DOMAIN gRuns : gRuns[i] = gRuns[j]

-----------------------------------------------------------------------------
(* Claims about the stats routes *)

AllHandlersIdle == \A p \in DOMAIN hPc : hPc[p] = "idle"

StoredTotals == IF kvTotals.exists THEN kvTotals.data ELSE ZeroTotals
StoredBoard == IF kvLeaderboard.exists THEN kvLeaderboard.data ELSE << >>

\* C19: once a set of kill, death and mission_complete events has been
\* acknowledged with success, handlers having run together or not, each
\* stored total is its value before them (zero) plus the sum of the counts
\* of the acknowledged events of its type.
C19_NoAcknowledgedEventLost ==
    AllHandlersIdle =>
        \A k \in TotalNames : StoredTotals[k] = acked[k]

\* The number of handled positive scores above score s.
RECURSIVE SubmittedAbove(_)
SubmittedAbove(s) ==
    IF s >= MaxScore THEN 0 ELSE submitted[s + 1] + SubmittedAbove(s + 1)

\* How many entries of score s the 20 highest handled scores hold.
TopShare(s) ==
    LET room == IF SubmittedAbove(s) >= 20 THEN 0 ELSE 20 - SubmittedAbove(s)
    IN  IF submitted[s] < room THEN submitted[s] ELSE room

BoardShare(s) ==
    Cardinality({i \in DOMAIN StoredBoard : StoredBoard[i].score = s})

C20_BoardIsTopTwenty ==
    AllHandlersIdle =>
        /\ Len(StoredBoard) <= 20
        /\ \A i, j \in DOMAIN StoredBoard :
              i < j => StoredBoard[i].score >= StoredBoard[j].score
        /\ \A i \in DOMAIN StoredBoard : StoredBoard[i].score \in 1..MaxScore
        /\ \A s \in 1..MaxScore : BoardShare(s) = TopShare(s)

C20_BadScoreLeavesBoard ==
    \A p \in DOMAIN hPc :
        (hPc[p] # "idle" /\ ~ScoreCounts(hBody[p]))
            => kvLeaderboard' = kvLeaderboard

\* C20: after any sequence of high_score events handled one at a time from
\* an empty store the leaderboard has at most 20 entries, ordered from the
\* highest score to the lowest, and they are the 20 highest positive scores
\* submitted so far (all of them when fewer); an event whose score is not a
\* positive number leaves the leaderboard unchanged.
C20_LeaderboardTopTwenty ==
    []C20_BoardIsTopTwenty /\ [][C20_BadScoreLeavesBoard]_vars

\* More than 20 positive scores were handled, the lowest more than once, and
\* the full board no longer holds any of the lowest.
C20_Witness ==
    /\ AllHandlersIdle
    /\ Len(StoredBoard) = 20
    /\ SubmittedUpTo(MaxScore) > 20
    /\ submitted[1] > 1
    /\ BoardShare(1) = 0

-----------------------------------------------------------------------------
(* Claims about the combat, difficulty, slope and angle utilities *)

UtilReturned(fn) == uCall.fn = fn /\ uOut # NoCall

\* C21: for every weapon and target type, in the table or not,
\* getDamageMultiplier returns the table value when the pair is there and
\* exactly 1.0 otherwise (sniper vs SOLDIER 3.0, cannon vs TANK 0.5, cannon
\* vs an unknown target 1.0).
C21_TableValueOrOne ==
    UtilReturned("getDamageMultiplier") =>
        LET w == uCall.args[1]
            t == uCall.args[2]
        IN  /\ (w \in WeaponTypes /\ t \in DamageTargetTypes) =>
                  uOut.value = DAMAGE_MULTIPLIERS.own[w].own[t]
            /\ ~(w \in WeaponTypes /\ t \in DamageTargetTypes) =>
                  uOut.value = Tenths(10)
            /\ (w = "sniper" /\ t = "SOLDIER") => uOut.value = Tenths(30)
            /\ (w = "cannon" /\ t = "TANK") => uOut.value = Tenths(5)

\* The flags of a category that are true.
TrueFlags(category) == {k \in DOMAIN category : category[k]}

\* C22: getTargetDamageCategory maps tanks and SAM sites to armored,
\* soldiers to infantry, buildings to structure, helicopters to air, each to
\* that one category only, and every unrecognized type to no category; no
\* input yields more than one true flag.
C22_OneCategory ==
    UtilReturned("getTargetDamageCategory") =>
        LET t == uCall.args[1]
            flags == TrueFlags(uOut.value)
        IN  /\ DOMAIN uOut.value = {"armored", "infantry", "structure", "air"}
            /\ Cardinality(flags) <= 1
            /\ t \in {"TANK", "SAM_SITE"} => flags = {"armored"}
            /\ t = "SOLDIER" => flags = {"infantry"}
            /\ t = "BUILDING" => flags = {"structure"}
            /\ t = "HELICOPTER" => flags = {"air"}
            /\ t \notin {"TANK", "SAM_SITE", "SOLDIER", "BUILDING", "HELICOPTER"}
                  => flags = {}

C22_Witness ==
    /\ UtilReturned("getTargetDamageCategory")
    /\ uCall.args[1] = "SAM_SITE"
    /\ uOut.value.armored

\* C23: normalizeDifficulty returns easy, medium, hard and extreme unchanged
\* and medium for every other input ('normal', the empty string, unknown
\* strings, undefined), so its result is always one of the four levels.
C23_CanonicalOrMedium ==
    UtilReturned("normalizeDifficulty") =>
        LET d == uCall.args[1]
            levels == {Str("easy"), Str("medium"), Str("hard"), Str("extreme")}
        IN  /\ uOut.value \in levels
            /\ d \in levels => uOut.value = d
            /\ d \notin levels => uOut.value = Str("medium")

C23_Witness ==
    /\ UtilReturned("normalizeDifficulty")
    /\ uCall.args[1] = Str("invalid")
    /\ uOut.value = Str("medium")

\* The samples of a call are all heights (numbers).
AllHeights(samples) == \A i \in DOMAIN samples : samples[i].t = "number"

\* C24: for every list of heights whose first element is the center,
\* estimateSlopeFromSamples returns the greatest |neighbor - center| over
\* the neighbors, and 0 for a single-sample list and for an empty list.
C24_MaxDeviation ==
    (UtilReturned("estimateSlopeFromSamples") /\ AllHeights(uCall.args[1])) =>
        LET samples == uCall.args[1]
            neighbors == DOMAIN samples \ {1}
            Dev(i) == IF samples[i].n >= samples[1].n
                      THEN samples[i].n - samples[1].n
                      ELSE samples[1].n - samples[i].n
        IN  IF neighbors = {} THEN uOut.value = 0
            ELSE /\ \A i \in neighbors : uOut.value >= Dev(i)
                 /\ \E i \in neighbors : uOut.value = Dev(i)

\* The greatest deviation is that of a neighbor below the center.
C24_Witness ==
    /\ UtilReturned("estimateSlopeFromSamples")
    /\ Len(uCall.args[1]) = 3
    /\ AllHeights(uCall.args[1])
    /\ uCall.args[1][2].n > uCall.args[1][1].n
    /\ uCall.args[1][3].n < uCall.args[1][1].n
    /\ uOut.value = uCall.args[1][1].n - uCall.args[1][3].n
    /\ uOut.value > uCall.args[1][2].n - uCall.args[1][1].n

\* C25 as stated: estimateSlopeFromSamples([10, 40, 18]) returns 20.
C25_ExampleIsTwenty ==
    (UtilReturned("estimateSlopeFromSamples")
        /\ uCall.args[1] = << Num(10), Num(40), Num(18) >>) => uOut.value = 20

\* C25 amended: estimateSlopeFromSamples([10, 40, 18]) returns 30, and
\* estimateSlopeFromSamples([20, 40, 18]) returns 20.
C25_ExampleIsThirty ==
    UtilReturned("estimateSlopeFromSamples") =>
        /\ uCall.args[1] = << Num(10), Num(40), Num(18) >> => uOut.value = 30
        /\ uCall.args[1] = << Num(20), Num(40), Num(18) >> => uOut.value = 20

C25_Witness ==
    /\ UtilReturned("estimateSlopeFromSamples")
    /\ uCall.args[1] = << Num(10), Num(40), Num(18) >>
    /\ uOut.value = 30

RequestId(req) ==
    IF req.body \in {NoJson, Null} THEN NaN ELSE ParseInt(req.body.missionId)

\* The request meets the three conditions of the claim: development mode,
\* an id that parses to an integer in 1..99, a mission object with a
\* mapIndex.
MeetsSaveConditions(req) ==
    /\ req.isDev
    /\ RequestId(req) # NaN
    /\ RequestId(req).n \in 1..MaxFileId
    /\ TypeOf(req.body.mission) = "object"
    /\ Truthy(req.body.mission)
    /\ Get(req.body.mission, "mapIndex") # Undef

\* A request writes only when it meets the conditions, and then only the
\* file mission-<id>.json of its id.
WritesOnlyItsFile ==
    savePath # NoPath =>
        /\ MeetsSaveConditions(saveReq)
        /\ saveResp = 200
        /\ savePath = FilePath(RequestId(saveReq).n)

\* No request changes a stored file other than the one whose path it wrote.
OtherFilesKept ==
    [][\A n \in DOMAIN files :
          files'[n] # files[n] => savePath' = FilePath(n)]_vars

\* C27 as stated: POST /save-mission writes only in development mode with
\* an id in 1..99 and a mission object with a mapIndex, only the file
\* mission-<id>.json, and in every other case answers 403 or 400 and writes
\* nothing.
C27_RefusesWith403Or400 ==
    saveReq # NoRequest =>
        /\ WritesOnlyItsFile
        /\ ~MeetsSaveConditions(saveReq) =>
              (saveResp \in {403, 400} /\ savePath = NoPath)

\* C27 amended: as stated, except that the refusals are 403, 400 or 500:
\* a body that is not a JSON object is answered 500, and nothing is written.
C27_RefusesWithoutWriting ==
    /\ [](saveReq # NoRequest =>
            /\ WritesOnlyItsFile
            /\ ~MeetsSaveConditions(saveReq) =>
                  (saveResp \in {403, 400, 500} /\ savePath = NoPath)
            /\ (saveReq.isDev /\ saveReq.body \in {NoJson, Null}) =>
                  saveResp = 500
            /\ ~saveReq.isDev => saveResp = 403)
    /\ OtherFilesKept

\* A request with the id "1; drop" wrote mission-1.json, and nothing else.
C27_Witness ==
    /\ saveReq # NoRequest
    /\ saveReq.body \notin {NoJson, Null}
    /\ saveReq.body.missionId = Str("1; drop")
    /\ savePath = FilePath(1)
    /\ files[2] = NoFile

\* C28: for every origin, candidate and mapSize > 0 the distance
\* findNearestTarget computes for the candidate equals distance3DWrapped
\* between origin and candidate at equal altitude, both are the same with the
\* two points exchanged, and so findNearestTarget returns the candidate that
\* distance3DWrapped calls nearer (the first one on a tie).
C28_TargetingAgreesWithWrapped ==
    /\ (cNear # NoCall /\ cWrapped # NoCall) =>
          /\ \A i \in 1..2 : cNear.dist[i] = cWrapped.to[i]
          /\ cNear.nearest = (IF cWrapped.to[2] < cWrapped.to[1] THEN 2 ELSE 1)
    /\ cWrapped # NoCall => \A i \in 1..2 : cWrapped.to[i] = cWrapped.from[i]
    /\ (cNear # NoCall /\ cNearBack # NoCall) =>
          \A i \in 1..2 : cNear.dist[i] = cNearBack.dist[i]

\* The second candidate is the nearer one only across the map's edge, and
\* is the one returned.
C28_Witness ==
    /\ cNear # NoCall
    /\ cNearBack # NoCall
    /\ cWrapped # NoCall
    /\ 2 * (cIn.targets[2].x - cIn.x) < 0 - cIn.mapSize
    /\ cIn.x - cIn.targets[2].x > cIn.targets[1].x - cIn.x
    /\ cIn.targets[1].x > cIn.x
    /\ cIn.targets[1].y = cIn.targets[2].y
    /\ cNear.nearest = 2
    /\ cWrapped.to[2] < cWrapped.to[1]

\* C29: across any sequence of /event requests with any bodies the stored
\* totals kills, deaths and missionsCompleted are non-negative numbers and
\* never decrease.
C29_TotalsNeverDecrease ==
    /\ [](\A k \in TotalNames : StoredTotals[k] >= 0)
    /\ [][\A k \in TotalNames : StoredTotals'[k] >= StoredTotals[k]]_vars

\* C30: for every generator response, an empty or missing entities array
\* included, the mission the agent returns has a non-empty entities list
\* and every entity in it has a count of at least 1.
C30_AlwaysEnemies ==
    \A i \in DOMAIN gRuns :
        gRuns[i] # Threw =>
            /\ Len(gRuns[i].entities) >= 1
            /\ \A j \in DOMAIN gRuns[i].entities :
                  gRuns[i].entities[j].count >= 1

=============================================================================
